---- MODULE Spec2Model ----
(***************************************************************************)
(* ggit: the workflow engine (src/src/core/workflow/engine.ts), the risk    *)
(* gate (src/src/core/git/executor.ts, src/src/core/nlp/llm-service.ts)    *)
(* and the command line around them.                                       *)
(*                                                                         *)
(* The engine is a single object with a step registry (a Map) and one      *)
(* asynchronous entry point, processInput.  Every engine action below is   *)
(* the code that runs between two awaits of processInput / generatePlan /  *)
(* executeWorkflow:                                                        *)
(*   "planning"    await generateWorkflowPlan(input)        engine.ts:108  *)
(*   "shouldSkip"  await step.shouldSkip(context)           engine.ts:132  *)
(*   "confirm"     await inquirer.prompt (continue/skip/exit)  :143        *)
(*   "execute"     await step.execute(context)              engine.ts:165  *)
(*   "errorPrompt" await inquirer.prompt (continue/exit)    engine.ts:171  *)
(* Step implementations, the plan resolver, the remote classifier and the  *)
(* user are inputs: what they return is chosen from small sets.            *)
(*                                                                         *)
(* Specifications, all from the same initial state:                        *)
(*   Spec          one caller awaiting each processInput call              *)
(*   SpecOverlap   a caller that does not await: two calls in flight       *)
(*   SpecRegistry  the step registry on its own                            *)
(*   SpecContext   the context accessors on their own                      *)
(*   SpecRisk      the two local risk policies on command texts            *)
(*   SpecCli       the direct command path of the CLI, validateGitCommand, *)
(*                 executeGitCommand and the discard path of the           *)
(*                 switch-branch step                                      *)
(*   SpecSteps     the steps of the status and the merge workflow, run by  *)
(*                 the engine on a repository                              *)
(*   SpecCommit    the steps of the commit workflow, run by the engine on  *)
(*                 a repository                                            *)
(*   SpecConfig    the LLM configuration: its file, the module variables   *)
(*                 and the config command                                  *)
(*   SpecEntry     the default action of the CLI in its three versions,    *)
(*                 from the request to the git process                     *)
(***************************************************************************)
EXTENDS Integers, Sequences, FiniteSets, TLC

VARIABLES
  registeredSteps,  \* WorkflowEngine.registeredSteps: Map id -> step
  pc,               \* where processInput is suspended
  repeated,         \* TRUE when an earlier processInput call on this engine has ended
  planResult,       \* value returned by generateWorkflowPlan for this call
  input,            \* the argument of this processInput call
  context,          \* the WorkflowContext of this call, NoContext before line 82
  i,                \* loop variable of executeWorkflow
  stepState,        \* per plan position, what the console shows for the step
  calls,            \* trace of this call: invocations of shouldSkip, prompts and
                    \* execute, each followed by what came back
  report,           \* run-level console messages of this call
  other,            \* the locals of a second processInput call in flight
  regLog,           \* the steps handed to registerStep, in call order
  written,          \* the addToContext calls on the context, in call order
  got,              \* what the last getFromContext returned, and for which key
  localLevels,      \* what the two local risk policies answered for gitCommand
  cliPc,            \* where the CLI action / the step is suspended
  gitCommand,       \* the command text in hand
  risk,             \* level returned to the CLI by validateGitCommand
  verificationCode, \* the code generated at part_001:65
  typed,            \* what the user typed last at the verification prompt
  verified,         \* TRUE once the verification prompt has returned
  confirmed,        \* the user's answer to the standard confirmation
  executed,         \* the calls of executeGitCommand that reached git
  assessments,      \* every answer of validateGitCommand so far
  repo,             \* the Git repository the steps work on, and what the running
                    \* step body did to it
  llm,              \* llm-service.ts: API_KEY, MODEL_NAME, BASE_URL of the process,
                    \* the config file, and the last call with what it returned
  entry             \* one invocation of `gt <request>`: the default action of the
                    \* CLI, from the shell to the git processes it starts

engineVars ==
  <<registeredSteps, pc, repeated, planResult, input, context, i, stepState, calls, report>>
cliVars ==
  <<cliPc, gitCommand, risk, verificationCode, typed, verified, confirmed, executed, assessments>>
stepVars == <<repo>>
configVars == <<llm>>
entryVars == <<entry>>
vars == <<engineVars, other, regLog, written, got, localLevels, cliVars, stepVars, configVars, entryVars>>

---------------------------------------------------------------------------
(* Bounds *)

MaxPlanLen == 3     \* longest id list the plan resolver returns

---------------------------------------------------------------------------
(* Values *)

\* JavaScript undefined, as Map.get / context.data[key] return it
undefined == "undefined"
\* Map.get result for an id that was never set (a record, like a step)
UndefinedStep == [undefined |-> TRUE]
\* before `const context = {...}` (engine.ts:82) no context exists
NoContext == [created |-> FALSE]
NoPlanResult == [steps |-> <<>>, summary |-> ""]

\* ids the plan resolver may name; "git-nonexistent" is never registered
RegisteredIds == {"git-status", "git-add"}
PlanIds == RegisteredIds \cup {"git-nonexistent"}

\* WorkflowStep (engine.ts:11-18): shouldSkip and requiresUserInput are
\* optional members; ver tells two definitions of one id apart.
StepPool ==
  { [id |-> "git-status", shouldSkip |-> TRUE,  requiresUserInput |-> TRUE,  ver |-> 1],
    [id |-> "git-status", shouldSkip |-> FALSE, requiresUserInput |-> FALSE, ver |-> 2],
    [id |-> "git-add",    shouldSkip |-> TRUE,  requiresUserInput |-> FALSE, ver |-> 1],
    [id |-> "git-add",    shouldSkip |-> FALSE, requiresUserInput |-> TRUE,  ver |-> 2] }

Inputs == {"commit my code"}
Keys == {"hasChanges"}
Values == {"true", "false"}

RECURSIVE SeqsUpTo(_, _)
SeqsUpTo(S, n) ==
  IF n = 0 THEN {<<>>}
  ELSE LET shorter == SeqsUpTo(S, n - 1)
       IN shorter \cup {Append(s, x) : s \in {t \in shorter : Len(t) = n - 1}, x \in S}

\* what generateWorkflowPlan may answer: {steps: string[], summary}
PlanResults == [steps : SeqsUpTo(PlanIds, MaxPlanLen), summary : {"summary"}]

EmptyMap == [k \in {} |-> undefined]

---------------------------------------------------------------------------
(* Step registry, engine.ts:41-58 *)

\* variant: an id that is taken keeps its first step
registerStepKeepFirst(reg, step) == reg @@ (step.id :> step)

\* registerStep: this.registeredSteps.set(step.id, step)
registerStep(reg, step) == (step.id :> step) @@ reg

\* getStepById: this.registeredSteps.get(id)
getStepById(reg, id) == IF id \in DOMAIN reg THEN reg[id] ELSE UndefinedStep

---------------------------------------------------------------------------
(* Plan resolution, engine.ts:106-119 *)

MapSeq(s, Op(_)) == [j \in 1..Len(s) |-> Op(s[j])]

IsStep(step) == step # UndefinedStep

\* variant: an unknown id makes the whole plan unusable
generatePlanStrict(reg, pr) ==
  [steps   |-> IF \E k \in 1..Len(pr.steps) : pr.steps[k] \notin DOMAIN reg
               THEN <<>>
               ELSE MapSeq(pr.steps, LAMBDA id : getStepById(reg, id)),
   summary |-> pr.summary]

\* variant: a step that is already in the list is not added again
generatePlanUnique(reg, pr) ==
  LET all == SelectSeq(MapSeq(pr.steps, LAMBDA id : getStepById(reg, id)), IsStep)
      firsts == {k \in 1..Len(all) : \A m \in 1..(k - 1) : all[m] # all[k]}
      Nth(S, n) == CHOOSE k \in S : Cardinality({m \in S : m < k}) = n - 1
  IN [steps   |-> [n \in 1..Cardinality(firsts) |-> all[Nth(firsts, n)]],
      summary |-> pr.summary]

\* planResult.steps.map(id => getStepById(id)).filter(step => !!step)
generatePlan(reg, pr) ==
  [steps   |-> SelectSeq(MapSeq(pr.steps, LAMBDA id : getStepById(reg, id)), IsStep),
   summary |-> pr.summary]

\* variant: only `!plan` is tested
PlanIsEmptyNullOnly(plan) == FALSE

\* `!plan || plan.steps.length === 0`, engine.ts:71
PlanIsEmpty(plan) == Len(plan.steps) = 0

---------------------------------------------------------------------------
(* Execution context, engine.ts:82-91 *)

\* variant: one data object for the engine, handed to every context
NewContextShared(inp, plan) ==
  [created |-> TRUE, originalInput |-> inp, steps |-> plan.steps,
   currentStepIndex |-> 0,
   data |-> IF other.context.created THEN other.context.data ELSE EmptyMap]

NewContext(inp, plan) ==
  [created |-> TRUE, originalInput |-> inp, steps |-> plan.steps,
   currentStepIndex |-> 0, data |-> EmptyMap]

\* variant: a key that is set keeps its value
addToContextKeepFirst(ctx, key, value) == [ctx EXCEPT !.data = @ @@ (key :> value)]

\* context.data[key] = value
addToContext(ctx, key, value) == [ctx EXCEPT !.data = (key :> value) @@ @]

\* context.data[key]
getFromContext(ctx, key) == IF key \in DOMAIN ctx.data THEN ctx.data[key] ELSE undefined

\* variant: the cursor is not written
SetCursorNever(ctx, n) == ctx

\* variant: the loop head starts every step on an empty data object
SetCursorFresh(ctx, n) == [ctx EXCEPT !.currentStepIndex = n, !.data = EmptyMap]

\* context.currentStepIndex = i, engine.ts:128
SetCursor(ctx, n) == [ctx EXCEPT !.currentStepIndex = n]

\* variant: the step is looked up in the registry again when its turn comes
StepAtLive(ctx, n) == getStepById(registeredSteps, ctx.steps[n + 1].id)

\* const step = context.steps[i] (0-based i), engine.ts:129
StepAt(ctx, n) == ctx.steps[n + 1]

\* one entry of the trace: op is the callee ("shouldSkip", "confirm",
\* "execute", "errorPrompt") or its answer ("execute=ok", "confirm=exit", ...)
Call(op, n, step) == [op |-> op, i |-> n, step |-> step]

Mark(st, n, s) == [st EXCEPT ![n + 1] = s]

---------------------------------------------------------------------------
(* executeWorkflow, engine.ts:125-190: the branches of one loop iteration *)

\* `if (step.requiresUserInput)`, engine.ts:142: prompt, else run the action
AfterSkipCheck(step) == IF step.requiresUserInput THEN "confirm" ELSE "execute"

\* variant: the skip predicate is not consulted
LoopEntryIgnoringSkip(step) == AfterSkipCheck(step)

\* `if (step.shouldSkip && await step.shouldSkip(context))`, engine.ts:132
LoopEntry(step) == IF step.shouldSkip THEN "shouldSkip" ELSE AfterSkipCheck(step)

\* variant: the exit answer has no branch and falls through
ConfirmBranchNoExit(action) == IF action = "skip" THEN "next" ELSE "execute"

\* engine.ts:154-160: skip -> continue, exit -> return, else fall through
ConfirmBranch(action) ==
  IF action = "skip" THEN "next"
  ELSE IF action = "exit" THEN "return"
  ELSE "execute"

\* variant: the answer of the error prompt is not looked at
ErrorBranchAlwaysExit(errorAction) == "break"

\* engine.ts:182-185: exit -> break, anything else goes on with the loop
ErrorBranch(errorAction) == IF errorAction = "exit" THEN "break" ELSE "next"

\* engine.ts:189, the statement after the loop
AfterLoop(rp) == rp \cup {"AllCompleted"}

\* variants: the loop steps over a position / stays on the position
AdvanceTwice(n) == n + 2
AdvanceRetry(n) == n

\* `i++` of the for statement, engine.ts:127
Advance(n) == n + 1

\* Loop head for index n (engine.ts:127-129) up to the first await of the
\* iteration, or the end of executeWorkflow when n is past the last step.
\* cl is the trace so far.
Iterate(ctx, n, cl) ==
  /\ i' = n
  /\ IF n < Len(ctx.steps)
     THEN LET c2 == SetCursor(ctx, n)
              step == StepAt(c2, n)
              to == LoopEntry(step)
          IN /\ context' = c2
             /\ pc' = to
             /\ calls' = Append(cl, Call(to, n, step))
             /\ report' = report
     ELSE /\ context' = ctx
          /\ pc' = "done"
          /\ calls' = cl
          /\ report' = AfterLoop(report)

---------------------------------------------------------------------------
(* Actions *)

\* the locals of a processInput call that has not been made
IdleCall ==
  [pc |-> "idle", planResult |-> NoPlanResult, input |-> "", context |-> NoContext,
   i |-> 0, stepState |-> <<>>, calls |-> <<>>, report |-> {}]
\* no getFromContext yet
NoRead == [key |-> "", value |-> undefined]
\* no local classification yet
NoLevels == [executor |-> "", llm |-> ""]

\* the config file before the first write: readFile fails
NoFile == [exists |-> FALSE, text |-> <<>>]
\* `let API_KEY = ''` etc., llm-service.ts:21-23, in a process that finds this
\* config file and has called nothing yet
FreshProcess(file) ==
  [API_KEY |-> "", MODEL_NAME |-> "gpt-3.5-turbo", BASE_URL |-> "", file |-> file,
   op |-> "", arg |-> [apiKey |-> undefined, model |-> undefined, baseUrl |-> undefined],
   ret |-> ""]

\* no request and no options
NoRequest == [text |-> "", intent |-> undefined, message |-> undefined]
NoOptions == [interactive |-> FALSE, generateMessage |-> FALSE]
\* nothing has been typed at the shell yet
AtShell ==
  [pc |-> "shell", version |-> "", request |-> NoRequest, options |-> NoOptions,
   llmAvailable |-> FALSE, gitCommand |-> <<>>, risk |-> "", previewed |-> FALSE,
   confirmed |-> "unasked", ran |-> <<>>, handled |-> ""]

\* the repository before the tool has touched it: on main, work tree clean,
\* no command issued, nothing answered, no step body in progress
CleanRepo ==
  [branch |-> "main", dirty |-> FALSE, git |-> <<>>, answers |-> <<>>, body |-> "none"]

\* a fresh process: the engine just constructed, nothing asked of the CLI
Init ==
  /\ registeredSteps = EmptyMap
  /\ pc = "idle"
  /\ repeated = FALSE
  /\ planResult = NoPlanResult
  /\ input = ""
  /\ context = NoContext
  /\ i = 0
  /\ stepState = <<>>
  /\ calls = <<>>
  /\ report = {}
  /\ other = IdleCall
  /\ regLog = <<>>
  /\ written = <<>>
  /\ got = NoRead
  /\ localLevels = NoLevels
  /\ cliPc = "start"
  /\ gitCommand = <<>>
  /\ risk = ""
  /\ verificationCode = ""
  /\ typed = ""
  /\ verified = FALSE
  /\ confirmed = "unasked"
  /\ executed = <<>>
  /\ assessments = {}
  /\ repo = CleanRepo
  /\ llm = FreshProcess(NoFile)
  /\ entry = AtShell

\* engine.registerStep(step), engine.ts:47-49
RegisterStep(step) ==
  /\ registeredSteps' = registerStep(registeredSteps, step)
  /\ UNCHANGED <<pc, repeated, planResult, input, context, i, stepState, calls, report>>

\* processInput(input) up to `await generateWorkflowPlan(input)`, engine.ts:64-69,108
ProcessInput(inp) ==
  /\ pc \in {"idle", "done"}
  /\ repeated' = (pc = "done")
  /\ pc' = "planning"
  /\ input' = inp
  /\ planResult' = NoPlanResult
  /\ context' = NoContext
  /\ i' = 0
  /\ stepState' = <<>>
  /\ calls' = <<>>
  /\ report' = {}
  /\ UNCHANGED registeredSteps

\* generateWorkflowPlan answers pr: engine.ts:111-118, 71-94, 127-132
PlanResolved(pr) ==
  /\ pc = "planning"
  /\ planResult' = pr
  /\ LET plan == generatePlan(registeredSteps, pr)
     IN IF PlanIsEmpty(plan)
        THEN /\ report' = report \cup {"NoPlan"}
             /\ pc' = "done"
             /\ UNCHANGED <<context, i, stepState, calls>>
        ELSE /\ stepState' = [p \in 1..Len(plan.steps) |-> "NotRun"]
             /\ Iterate(NewContext(input, plan), 0, calls)
  /\ UNCHANGED <<registeredSteps, repeated, input>>

\* variant: processInput has no catch, the rejection reaches the caller
PlanFailsUncaught ==
  /\ pc = "planning"
  /\ pc' = "rejected"
  /\ UNCHANGED <<registeredSteps, repeated, planResult, input, context, i, stepState, calls, report>>

\* generateWorkflowPlan rejects: caught by processInput, engine.ts:96-98
PlanFails ==
  /\ pc = "planning"
  /\ pc' = "done"
  /\ report' = report \cup {"WorkflowError"}
  /\ UNCHANGED <<registeredSteps, repeated, planResult, input, context, i, stepState, calls>>

\* step.shouldSkip(context) answers b, engine.ts:132-142
ShouldSkipReturns(b) ==
  /\ pc = "shouldSkip"
  /\ LET step == StepAt(context, i)
     IN IF b
        THEN /\ stepState' = Mark(stepState, i, "Skipped")
             /\ Iterate(context, Advance(i), Append(calls, Call("shouldSkip=true", i, step)))
        ELSE LET to == AfterSkipCheck(step)
             IN /\ pc' = to
                /\ calls' = calls \o <<Call("shouldSkip=false", i, step), Call(to, i, step)>>
                /\ UNCHANGED <<context, i, stepState, report>>
  /\ UNCHANGED <<registeredSteps, repeated, planResult, input>>

\* step.shouldSkip(context) rejects: leaves executeWorkflow, caught at engine.ts:96
ShouldSkipThrows ==
  /\ pc = "shouldSkip"
  /\ pc' = "done"
  /\ calls' = Append(calls, Call("shouldSkip!throw", i, StepAt(context, i)))
  /\ report' = report \cup {"WorkflowError"}
  /\ UNCHANGED <<registeredSteps, repeated, planResult, input, context, i, stepState>>

\* the user answers the three-way prompt, engine.ts:143-165
Confirm(action) ==
  /\ pc = "confirm"
  /\ LET step == StepAt(context, i)
         branch == ConfirmBranch(action)
     IN CASE branch = "next" ->
               /\ stepState' = Mark(stepState, i, "Skipped")
               /\ Iterate(context, Advance(i), Append(calls, Call("confirm=skip", i, step)))
          [] branch = "return" ->
               /\ pc' = "done"
               /\ calls' = Append(calls, Call("confirm=exit", i, step))
               /\ report' = report \cup {"Exited"}
               /\ UNCHANGED <<context, i, stepState>>
          [] OTHER ->
               /\ pc' = "execute"
               /\ calls' = calls \o <<Call("confirm=" \o action, i, step), Call("execute", i, step)>>
               /\ UNCHANGED <<context, i, stepState, report>>
  /\ UNCHANGED <<registeredSteps, repeated, planResult, input>>

\* the running step calls context.addToContext(key, value), engine.ts:87-89
AddToContext(key, value) ==
  /\ pc = "execute"
  /\ context' = addToContext(context, key, value)
  /\ UNCHANGED <<registeredSteps, pc, repeated, planResult, input, i, stepState, calls, report>>

\* step.execute(context) resolves, engine.ts:165-166 and the next loop head
ExecuteReturns ==
  /\ pc = "execute"
  /\ stepState' = Mark(stepState, i, "Completed")
  /\ Iterate(context, Advance(i), Append(calls, Call("execute=ok", i, StepAt(context, i))))
  /\ UNCHANGED <<registeredSteps, repeated, planResult, input>>

\* step.execute(context) rejects, engine.ts:167-180
ExecuteThrows ==
  /\ pc = "execute"
  /\ stepState' = Mark(stepState, i, "Failed")
  /\ pc' = "errorPrompt"
  /\ LET step == StepAt(context, i)
     IN calls' = calls \o <<Call("execute!throw", i, step), Call("errorPrompt", i, step)>>
  /\ UNCHANGED <<registeredSteps, repeated, planResult, input, context, i, report>>

\* the user answers the error prompt, engine.ts:182-189
ErrorDecision(errorAction) ==
  /\ pc = "errorPrompt"
  /\ LET answered == Append(calls, Call("errorPrompt=" \o errorAction, i, StepAt(context, i)))
     IN IF ErrorBranch(errorAction) = "break"
        THEN /\ pc' = "done"
             /\ calls' = answered
             /\ report' = AfterLoop(report \cup {"Cancelled"})
             /\ UNCHANGED <<context, i, stepState>>
        ELSE /\ stepState' = Mark(stepState, i, "FailedContinue")
             /\ Iterate(context, Advance(i), answered)
  /\ UNCHANGED <<registeredSteps, repeated, planResult, input>>

\* the variables the engine does not touch
outsideEngine == <<other, regLog, written, got, localLevels, cliVars, stepVars, configVars, entryVars>>

Next ==
  \/ \E step \in StepPool : RegisterStep(step) /\ UNCHANGED outsideEngine
  \/ \E inp \in Inputs : ProcessInput(inp) /\ UNCHANGED outsideEngine
  \/ \E pr \in PlanResults : PlanResolved(pr) /\ UNCHANGED outsideEngine
  \/ PlanFails /\ UNCHANGED outsideEngine
  \/ \E b \in BOOLEAN : ShouldSkipReturns(b) /\ UNCHANGED outsideEngine
  \/ ShouldSkipThrows /\ UNCHANGED outsideEngine
  \/ \E action \in {"continue", "skip", "exit"} : Confirm(action) /\ UNCHANGED outsideEngine
  \/ \E key \in Keys, value \in Values : AddToContext(key, value) /\ UNCHANGED outsideEngine
  \/ ExecuteReturns /\ UNCHANGED outsideEngine
  \/ ExecuteThrows /\ UNCHANGED outsideEngine
  \/ \E errorAction \in {"continue", "exit"} : ErrorDecision(errorAction) /\ UNCHANGED outsideEngine

Spec == Init /\ [][Next]_vars

---------------------------------------------------------------------------
(* Command texts.  A command is the sequence of its characters, so that    *)
(* String.prototype.includes is substring search and not word comparison.  *)

MaxWords == 3       \* longest command built from the vocabulary, in words

w_git      == <<"g","i","t">>
w_reset    == <<"r","e","s","e","t">>
w_hard     == <<"-","-","h","a","r","d">>
w_clean    == <<"c","l","e","a","n">>
w_fd       == <<"-","f","d">>
w_push     == <<"p","u","s","h">>
w_force    == <<"-","-","f","o","r","c","e">>
w_f        == <<"-","f">>
w_branch   == <<"b","r","a","n","c","h">>
w_D        == <<"-","D">>
w_d        == <<"-","d">>
w_rebase   == <<"r","e","b","a","s","e">>
w_checkout == <<"c","h","e","c","k","o","u","t">>
w_b        == <<"-","b">>
w_stash    == <<"s","t","a","s","h">>
w_drop     == <<"d","r","o","p">>
w_status   == <<"s","t","a","t","u","s">>
w_HEAD     == <<"H","E","A","D">>
w_HEAD1    == <<"H","E","A","D","~","1">>
w_HEAD3    == <<"H","E","A","D","~","3">>
w_featurex == <<"f","e","a","t","u","r","e","/","x">>
w_origin   == <<"o","r","i","g","i","n">>
w_main     == <<"m","a","i","n">>
w_commit   == <<"c","o","m","m","i","t">>
w_m        == <<"-","m">>
w_qFix     == <<"\"","F","i","x">>
w_login    == <<"l","o","g","i","n">>
w_bugq     == <<"b","u","g","\"">>
w_featureauth == <<"f","e","a","t","u","r","e","/","a","u","t","h">>

\* the words separated by single blanks
RECURSIVE Phrase(_)
Phrase(words) ==
  IF Len(words) = 0 THEN <<>>
  ELSE IF Len(words) = 1 THEN words[1]
  ELSE words[1] \o <<" ">> \o Phrase(Tail(words))

Words ==
  { w_reset, w_hard, w_clean, w_fd, w_push, w_force, w_f, w_branch, w_D, w_d,
    w_rebase, w_checkout, w_b, w_stash, w_drop, w_status }

\* TEST_COMMANDS of the risk test script, part_000:11-19
TEST_COMMANDS ==
  { Phrase(<<w_git, w_status>>),
    Phrase(<<w_git, w_commit, w_m, w_qFix, w_login, w_bugq>>),
    Phrase(<<w_git, w_checkout, w_b, w_featureauth>>),
    Phrase(<<w_git, w_reset, w_HEAD1>>),
    Phrase(<<w_git, w_reset, w_hard, w_HEAD3>>),
    Phrase(<<w_git, w_push, w_force, w_origin, w_main>>),
    Phrase(<<w_git, w_clean, w_fd>>) }

\* the three commands of Scenario C
ScenarioCommands ==
  { Phrase(<<w_reset, w_hard, w_HEAD3>>),
    Phrase(<<w_checkout, w_b, w_featurex>>),
    w_status }

Commands ==
  {Phrase(ws) : ws \in SeqsUpTo(Words, MaxWords) \ {<<>>}}
    \cup TEST_COMMANDS \cup ScenarioCommands

Levels == {"low", "medium", "high"}

\* command.includes(pattern)
includes(command, pattern) ==
  \E k \in 0..(Len(command) - Len(pattern)) :
    SubSeq(command, k + 1, k + Len(pattern)) = pattern

\* executor.ts:70-76 and 79-85
executorHighRiskPatterns ==
  << Phrase(<<w_reset, w_hard>>), Phrase(<<w_clean, w_fd>>), Phrase(<<w_push, w_force>>),
     Phrase(<<w_push, w_f>>), Phrase(<<w_branch, w_D>>) >>
executorMediumRiskPatterns ==
  << w_reset, w_rebase, Phrase(<<w_checkout, w_b>>), Phrase(<<w_branch, w_d>>),
     Phrase(<<w_stash, w_drop>>) >>

\* llm-service.ts:268-274 and 277-283
llmHighRiskPatterns ==
  << Phrase(<<w_reset, w_hard>>), Phrase(<<w_clean, w_fd>>), Phrase(<<w_push, w_force>>),
     Phrase(<<w_push, w_f>>), Phrase(<<w_branch, w_D>>) >>
llmMediumRiskPatterns ==
  << w_reset, w_rebase, Phrase(<<w_checkout, w_b>>), Phrase(<<w_branch, w_d>>),
     Phrase(<<w_stash, w_drop>>) >>

\* one of the two for-loops: does any pattern of the list occur in the command
AnyIncluded(command, patterns) ==
  \E k \in 1..Len(patterns) : includes(command, patterns[k])

\* variant: the medium loop runs before the high loop
validateGitCommandLocallyMediumFirst(command) ==
  IF AnyIncluded(command, executorMediumRiskPatterns) THEN "medium"
  ELSE IF AnyIncluded(command, executorHighRiskPatterns) THEN "high"
  ELSE "low"

\* validateGitCommandLocally(command).level, executor.ts:68-112
validateGitCommandLocally(command) ==
  IF AnyIncluded(command, executorHighRiskPatterns) THEN "high"
  ELSE IF AnyIncluded(command, executorMediumRiskPatterns) THEN "medium"
  ELSE "low"

\* analyzeCommandRiskLocally(command).riskLevel, llm-service.ts:263-308
analyzeCommandRiskLocally(command) ==
  IF AnyIncluded(command, llmHighRiskPatterns) THEN "high"
  ELSE IF AnyIncluded(command, llmMediumRiskPatterns) THEN "medium"
  ELSE "low"

\* What the remote classifier does with one request: it answers a level, or
\* the request fails (network error, or an answer the zod schema rejects).
RemoteOutcomes == Levels \cup {"fails"}

\* variant: a failed request is taken for a harmless command
analyzeCommandRiskFailOpen(command, apiKey, remote) ==
  IF ~apiKey THEN analyzeCommandRiskLocally(command)
  ELSE IF remote \in Levels THEN remote
  ELSE "low"

\* analyzeCommandRisk(command).riskLevel, llm-service.ts:186-256.  apiKey is
\* !!API_KEY, remote is what the request of line 245 and the parse of line 249
\* come to.
analyzeCommandRisk(command, apiKey, remote) ==
  IF ~apiKey THEN analyzeCommandRiskLocally(command)
  ELSE IF remote \in Levels THEN remote
  ELSE analyzeCommandRiskLocally(command)

\* variant: the remote classifier is never consulted
validateGitCommandLocalOnly(command, apiKey, remote) ==
  validateGitCommandLocally(command)

\* validateGitCommand(command).level, executor.ts:30-61.  apiKey is what
\* initLLMService() resolves to (llm-service.ts:46-64, it never rejects).
validateGitCommand(command, apiKey, remote) ==
  IF apiKey THEN analyzeCommandRisk(command, apiKey, remote)
  ELSE validateGitCommandLocally(command)

\* Both local policies are asked about one command text.
ClassifyLocally(command) ==
  /\ gitCommand' = command
  /\ localLevels' = [executor |-> validateGitCommandLocally(command),
                     llm |-> analyzeCommandRiskLocally(command)]
  /\ UNCHANGED <<engineVars, stepVars, configVars, entryVars, other, regLog, written, got>>
  /\ UNCHANGED <<cliPc, risk, verificationCode, typed, verified, confirmed, executed, assessments>>

\* one classification in a process, as in the CLI
NextRisk ==
  /\ localLevels = NoLevels
  /\ \E command \in Commands : ClassifyLocally(command)

SpecRisk == Init /\ [][NextRisk]_vars

---------------------------------------------------------------------------
(* The direct command path of the CLI (part_001:59-119, the earlier        *)
(* src/src/cli/index.ts:44-61), executeGitCommand (executor.ts:142-240)    *)
(* and gitSwitchBranchStep.execute when the work tree has uncommitted      *)
(* changes (git-merge-steps.ts:99-181).                                    *)
(*   "validate"          await validateGitCommand(gitCommand) part_001:62  *)
(*   "verify"            await inquirer.prompt (input, validated)     :68  *)
(*   "confirm"           await inquirer.prompt (confirm)              :88  *)
(*   "execute"           await executeGitCommand(gitCommand)          :97  *)
(*   "sb-action"         await inquirer.prompt (list) git-merge-steps:109  *)
(*   "sb-confirmDiscard" await inquirer.prompt (confirm)             :152  *)
(*   "sb-add", "sb-stash", "sb-reset", "sb-checkout"                       *)
(*                       await executeGitCommand(...)  :129, :143, :165, :181 *)

w_add      == <<"a","d","d">>
w_A        == <<"-","A">>
w_save     == <<"s","a","v","e">>

\* what processNaturalLanguage hands back in the runs considered
CliCommands ==
  { Phrase(<<w_git, w_status>>),
    Phrase(<<w_git, w_checkout, w_b, w_featureauth>>),
    Phrase(<<w_git, w_reset, w_hard, w_HEAD3>>),
    Phrase(<<w_git, w_push, w_f>>) }

\* Math.floor(1000 + Math.random() * 9000).toString(), part_001:65
Codes == {"1000", "5678", "9999"}
\* what a user may type at the verification prompt
Typings == Codes \cup {"", "999"}

\* command texts of gitSwitchBranchStep, by the await they are passed at
SwitchBranchCommand(p) ==
  CASE p = "sb-add"      -> Phrase(<<w_git, w_add, w_A>>)
    [] p = "sb-stash"    -> Phrase(<<w_git, w_stash, w_save>>)
    [] p = "sb-reset"    -> Phrase(<<w_git, w_reset, w_hard, w_HEAD>>)
    [] p = "sb-checkout" -> Phrase(<<w_git, w_checkout, w_main>>)

\* where the step goes after the command awaited at p succeeded
SwitchBranchAfter(p) == IF p = "sb-checkout" THEN "end" ELSE "sb-checkout"

Assessment(command, apiKey, remote, level) ==
  [command |-> command, apiKey |-> apiKey, remote |-> remote, level |-> level]

\* one entry of executed: the command, the level executeGitCommand itself
\* obtained at executor.ts:145, what the user had been asked before, and the caller
Ran(command, level) ==
  [command |-> command, level |-> level, verified |-> verified, confirmed |-> confirmed,
   by |-> IF cliPc = "execute" THEN "cli" ELSE "git-switch-branch"]

\* executeGitCommand(command), executor.ts:142-240: risk is assigned at line
\* 145 and never read; the command is run whatever it is.
executeGitCommand(log, command, level) == Append(log, Ran(command, level))

\* validate callback of the verification prompt, part_001:72
VerificationAccepts(userCode, code) == userCode = code

\* part_001:59
NeedsVerification(level) == level = "high"

\* variant: a declined confirmation does not stop the command
AfterConfirmAlways(answer) == "execute"

\* part_001:95 and 107, cli/index.ts:53 and 59
AfterConfirm(answer) == IF answer THEN "execute" ELSE "end"

\* processNaturalLanguage resolves and validateGitCommand is awaited, part_001:59-62
Translate(command) ==
  /\ cliPc = "start"
  /\ gitCommand' = command
  /\ cliPc' = "validate"
  /\ UNCHANGED <<risk, verificationCode, typed, verified, confirmed, executed, assessments>>
  /\ UNCHANGED <<engineVars, stepVars, configVars, entryVars, other, regLog, written, got, localLevels>>

\* the earlier CLI: processNaturalLanguage resolves and the command is
\* previewed, cli/index.ts:44-50
Preview(command) ==
  /\ cliPc = "start"
  /\ gitCommand' = command
  /\ cliPc' = "confirm"
  /\ UNCHANGED <<risk, verificationCode, typed, verified, confirmed, executed, assessments>>
  /\ UNCHANGED <<engineVars, stepVars, configVars, entryVars, other, regLog, written, got, localLevels>>

\* processNaturalLanguage rejects, part_001:115-117
TranslateFails ==
  /\ cliPc = "start"
  /\ cliPc' = "end"
  /\ UNCHANGED <<gitCommand, risk, verificationCode, typed, verified, confirmed, executed, assessments>>
  /\ UNCHANGED <<engineVars, stepVars, configVars, entryVars, other, regLog, written, got, localLevels>>

\* validateGitCommand resolves, part_001:62-86
Validated(apiKey, remote, code) ==
  /\ cliPc = "validate"
  /\ risk' = validateGitCommand(gitCommand, apiKey, remote)
  /\ assessments' = assessments \cup {Assessment(gitCommand, apiKey, remote, risk')}
  /\ IF NeedsVerification(risk')
       THEN verificationCode' = code /\ cliPc' = "verify"
       ELSE verificationCode' = verificationCode /\ cliPc' = "confirm"
  /\ UNCHANGED <<gitCommand, typed, verified, confirmed, executed>>
  /\ UNCHANGED <<engineVars, stepVars, configVars, entryVars, other, regLog, written, got, localLevels>>

\* the user submits userCode at the verification prompt, part_001:68-75
TypeCode(userCode) ==
  /\ cliPc = "verify"
  /\ typed' = userCode
  /\ IF VerificationAccepts(userCode, verificationCode)
       THEN verified' = TRUE /\ cliPc' = "confirm"
       ELSE verified' = verified /\ cliPc' = "verify"
  /\ UNCHANGED <<gitCommand, risk, verificationCode, confirmed, executed, assessments>>
  /\ UNCHANGED <<engineVars, stepVars, configVars, entryVars, other, regLog, written, got, localLevels>>

\* the user answers the standard confirmation, part_001:88-95 and 106-108
ConfirmExecution(answer) ==
  /\ cliPc = "confirm"
  /\ confirmed' = IF answer THEN "yes" ELSE "no"
  /\ cliPc' = AfterConfirm(answer)
  /\ UNCHANGED <<gitCommand, risk, verificationCode, typed, verified, executed, assessments>>
  /\ UNCHANGED <<engineVars, stepVars, configVars, entryVars, other, regLog, written, got, localLevels>>

\* executeGitCommand(gitCommand) runs, part_001:97-105
Execute(apiKey, remote) ==
  /\ cliPc = "execute"
  /\ LET level == validateGitCommand(gitCommand, apiKey, remote) IN
       /\ assessments' = assessments \cup {Assessment(gitCommand, apiKey, remote, level)}
       /\ executed' = executeGitCommand(executed, gitCommand, level)
  /\ cliPc' = "end"
  /\ UNCHANGED <<gitCommand, risk, verificationCode, typed, verified, confirmed>>
  /\ UNCHANGED <<engineVars, stepVars, configVars, entryVars, other, regLog, written, got, localLevels>>

\* gitSwitchBranchStep.execute finds uncommitted changes and asks what to do
\* with them, git-merge-steps.ts:99-119
SwitchBranchAsks ==
  /\ cliPc = "start"
  /\ cliPc' = "sb-action"
  /\ UNCHANGED <<gitCommand, risk, verificationCode, typed, verified, confirmed, executed, assessments>>
  /\ UNCHANGED <<engineVars, stepVars, configVars, entryVars, other, regLog, written, got, localLevels>>

\* the user picks an entry of the list, git-merge-steps.ts:121-176
SwitchBranchAction(action) ==
  /\ cliPc = "sb-action"
  /\ cliPc' = CASE action = "commit"  -> "sb-add"
                [] action = "stash"   -> "sb-stash"
                [] action = "discard" -> "sb-confirmDiscard"
                [] action = "cancel"  -> "end"
  /\ UNCHANGED <<gitCommand, risk, verificationCode, typed, verified, confirmed, executed, assessments>>
  /\ UNCHANGED <<engineVars, stepVars, configVars, entryVars, other, regLog, written, got, localLevels>>

\* the user answers "discard all uncommitted changes?", git-merge-steps.ts:152-163
SwitchBranchConfirmDiscard(confirmDiscard) ==
  /\ cliPc = "sb-confirmDiscard"
  /\ cliPc' = IF confirmDiscard THEN "sb-reset" ELSE "end"
  /\ UNCHANGED <<gitCommand, risk, verificationCode, typed, verified, confirmed, executed, assessments>>
  /\ UNCHANGED <<engineVars, stepVars, configVars, entryVars, other, regLog, written, got, localLevels>>

\* one executeGitCommand of the step runs and succeeds,
\* git-merge-steps.ts:129, 143, 165, 181
SwitchBranchExecutes(apiKey, remote) ==
  /\ cliPc \in {"sb-add", "sb-stash", "sb-reset", "sb-checkout"}
  /\ gitCommand' = SwitchBranchCommand(cliPc)
  /\ LET level == validateGitCommand(gitCommand', apiKey, remote) IN
       /\ assessments' = assessments \cup {Assessment(gitCommand', apiKey, remote, level)}
       /\ executed' = executeGitCommand(executed, gitCommand', level)
  /\ cliPc' = SwitchBranchAfter(cliPc)
  /\ UNCHANGED <<risk, verificationCode, typed, verified, confirmed>>
  /\ UNCHANGED <<engineVars, stepVars, configVars, entryVars, other, regLog, written, got, localLevels>>

NextCli ==
  \/ \E command \in CliCommands : Translate(command)
  \/ \E command \in CliCommands : Preview(command)
  \/ TranslateFails
  \/ \E apiKey \in BOOLEAN, remote \in RemoteOutcomes, code \in Codes :
       Validated(apiKey, remote, code)
  \/ \E userCode \in Typings : TypeCode(userCode)
  \/ \E answer \in BOOLEAN : ConfirmExecution(answer)
  \/ \E apiKey \in BOOLEAN, remote \in RemoteOutcomes : Execute(apiKey, remote)
  \/ SwitchBranchAsks
  \/ \E action \in {"commit", "stash", "discard", "cancel"} : SwitchBranchAction(action)
  \/ \E confirmDiscard \in BOOLEAN : SwitchBranchConfirmDiscard(confirmDiscard)
  \/ \E apiKey \in BOOLEAN, remote \in RemoteOutcomes : SwitchBranchExecutes(apiKey, remote)

SpecCli == Init /\ [][NextCli]_vars

---------------------------------------------------------------------------
(* The step registry on its own: registerStep, getStepById and             *)
(* initWorkflowEngine (engine.ts:47-58, 282-309).  regLog remembers every  *)
(* registerStep call, so that what the Map holds can be compared with what *)
(* was put into it.                                                        *)

MaxRegistrations == 4   \* registerStep calls in one behaviour

\* the steps registerAllSteps registers, in its order, engine.ts:286-303
AllSteps ==
  << [id |-> "git-status", shouldSkip |-> TRUE, requiresUserInput |-> TRUE,  ver |-> 1],
     [id |-> "git-add",    shouldSkip |-> TRUE, requiresUserInput |-> FALSE, ver |-> 1] >>

\* registerAllSteps(), engine.ts:286-303: registerStep for each step in turn
RECURSIVE registerAllSteps(_, _)
registerAllSteps(reg, steps) ==
  IF steps = <<>> THEN reg
  ELSE registerAllSteps(registerStep(reg, Head(steps)), Tail(steps))

\* initWorkflowEngine(), engine.ts:306-309
InitWorkflowEngine ==
  /\ registeredSteps' = registerAllSteps(registeredSteps, AllSteps)
  /\ UNCHANGED <<pc, repeated, planResult, input, context, i, stepState, calls, report>>

outsideRegistry == <<other, written, got, localLevels, cliVars, stepVars, configVars, entryVars>>

NextRegistry ==
  \/ /\ Len(regLog) < MaxRegistrations
     /\ \E step \in StepPool : RegisterStep(step) /\ regLog' = Append(regLog, step)
     /\ UNCHANGED outsideRegistry
  \/ /\ Len(regLog) + Len(AllSteps) <= MaxRegistrations
     /\ InitWorkflowEngine /\ regLog' = regLog \o AllSteps
     /\ UNCHANGED outsideRegistry

SpecRegistry == Init /\ [][NextRegistry]_vars

---------------------------------------------------------------------------
(* The context accessors on their own: the object literal of               *)
(* engine.ts:82-91 and its two closures.  written remembers every          *)
(* addToContext call, got the last getFromContext.                         *)

MaxWrites == 3      \* addToContext calls on one context

\* keys the steps use (git-steps.ts, git-merge-steps.ts:100, 147, 160)
ContextKeys == {"hasChanges", "targetBranch", "hasStash"}

\* the plans of one step
OneStepPlans == {[steps |-> <<step>>, summary |-> "summary"] : step \in StepPool}

\* const context = { ... }, engine.ts:82-91
CreateContext(inp, plan) ==
  /\ ~context.created
  /\ context' = NewContext(inp, plan)
  /\ UNCHANGED <<written, got>>

\* context.addToContext(key, value), engine.ts:87-89
ContextAdd(key, value) ==
  /\ context.created
  /\ Len(written) < MaxWrites
  /\ context' = addToContext(context, key, value)
  /\ written' = Append(written, <<key, value>>)
  /\ UNCHANGED got

\* context.getFromContext(key), engine.ts:90
ContextGet(key) ==
  /\ context.created
  /\ got' = [key |-> key, value |-> getFromContext(context, key)]
  /\ UNCHANGED <<context, written>>

outsideContext ==
  <<registeredSteps, pc, repeated, planResult, input, i, stepState, calls, report,
    other, regLog, localLevels, cliVars, stepVars, configVars, entryVars>>

NextContext ==
  \/ \E inp \in Inputs, plan \in OneStepPlans : CreateContext(inp, plan) /\ UNCHANGED outsideContext
  \/ \E key \in ContextKeys, value \in Values : ContextAdd(key, value) /\ UNCHANGED outsideContext
  \/ \E key \in ContextKeys : ContextGet(key) /\ UNCHANGED outsideContext

SpecContext == Init /\ [][NextContext]_vars

---------------------------------------------------------------------------
(* Two processInput calls in flight on the one engine.  processInput       *)
(* holds no lock and all its state is in locals, so a caller that does not *)
(* await the first call gets two calls that advance in turns, each from    *)
(* one of its awaits to its next.  The variables pc .. report are the      *)
(* locals of the call that runs next; other holds those of the call that   *)
(* waits; SwitchCall is the event loop resuming the other call.  The steps  *)
(* of a call write what they were asked for, the input of their call, so   *)
(* that a value tells which call wrote it.                                 *)

MaxOverlapPlanLen == 1   \* longest id list the plan resolver returns to these calls

OverlapInputs == {"commit my code", "merge dev into main"}
OverlapPlanResults == [steps : SeqsUpTo(RegisteredIds, MaxOverlapPlanLen), summary : {"summary"}]

\* the locals of the call that runs next
ThisCall ==
  [pc |-> pc, planResult |-> planResult, input |-> input, context |-> context,
   i |-> i, stepState |-> stepState, calls |-> calls, report |-> report]

\* the call in hand is suspended at an await (or has returned) and the event
\* loop goes on with the other one
SwitchCall ==
  /\ pc # "idle"
  /\ other' = ThisCall
  /\ pc' = other.pc
  /\ planResult' = other.planResult
  /\ input' = other.input
  /\ context' = other.context
  /\ i' = other.i
  /\ stepState' = other.stepState
  /\ calls' = other.calls
  /\ report' = other.report
  /\ UNCHANGED <<registeredSteps, repeated>>

outsideOverlap == <<regLog, written, got, localLevels, cliVars, stepVars, configVars, entryVars>>

NextOverlap ==
  \/ InitWorkflowEngine /\ UNCHANGED outsideEngine
  \/ \E inp \in OverlapInputs : ProcessInput(inp) /\ UNCHANGED outsideEngine
  \/ \E pr \in OverlapPlanResults : PlanResolved(pr) /\ UNCHANGED outsideEngine
  \/ PlanFails /\ UNCHANGED outsideEngine
  \/ \E b \in BOOLEAN : ShouldSkipReturns(b) /\ UNCHANGED outsideEngine
  \/ ShouldSkipThrows /\ UNCHANGED outsideEngine
  \/ \E action \in {"continue", "skip", "exit"} : Confirm(action) /\ UNCHANGED outsideEngine
  \/ \E key \in Keys : AddToContext(key, input) /\ UNCHANGED outsideEngine
  \/ ExecuteReturns /\ UNCHANGED outsideEngine
  \/ ExecuteThrows /\ UNCHANGED outsideEngine
  \/ \E errorAction \in {"continue", "exit"} : ErrorDecision(errorAction) /\ UNCHANGED outsideEngine
  \/ SwitchCall /\ UNCHANGED outsideOverlap

SpecOverlap == Init /\ [][NextOverlap]_vars

---------------------------------------------------------------------------
(* The steps of the status and merge workflows, run by the engine.  A step *)
(* body runs from the call of execute to its return or throw in one        *)
(* transition: the answers of the user to its prompts and the success of   *)
(* its git commands are the choices of that transition.  repo.git lists    *)
(* the commands of the run that change the repository, each with the       *)
(* branch that was checked out when it was issued; repo.answers lists what *)
(* the steps of the run were told, by the user at their prompts and by git *)
(* at their queries, each with the number of commands issued before it.    *)

Branches == {"main", "dev", "feature"}

\* JavaScript truthiness of a context value (`!x`, `if (x)`)
Truthy(v) == v \notin {undefined, "false", ""}

\* how a step body ends: the context and the repository it leaves
Returned(ctx, r) == [ctx |-> ctx, repo |-> r, result |-> "returns"]
Thrown(ctx, r) == [ctx |-> ctx, repo |-> r, result |-> "throws"]

\* executeGitCommand(cmd) reaching git while r.branch is checked out
\* (ok) or being refused by it
Issue(r, cmd, arg, ok) ==
  [r EXCEPT !.git = Append(@, [cmd |-> cmd, arg |-> arg, on |-> r.branch, ok |-> ok])]

\* the step is told answer: by the user at a prompt of this name, or by git
\* as the raw output of a query
Answer(r, asked, answer) ==
  [r EXCEPT !.answers = Append(@, [asked |-> asked, answer |-> answer, at |-> Len(r.git)])]

\* `output: result || '...'` of a command that succeeded, executor.ts:217:
\* the text that stands in for an empty output is written in pinyin
ExecutionOutput(result) ==
  IF result = "" THEN "mingling yi zhixing, wu shuchu jieguo" ELSE result

\* raw outputs of `git log target..source`: no new commit, or one
LogOutputs == {"", "* 1a2b3c4 feat: x"}

\* one line of `git status` output: what it starts with, and the rest
StatusLine(label, rest) == [label |-> label, rest |-> rest]

\* outputs of `git status` on a clean and on a changed work tree
CleanOutputs ==
  { << StatusLine("On branch", "main"),
       StatusLine("nothing to commit", ", working tree clean") >>,
    << StatusLine("weiyu fenzhi", "main"),
       StatusLine("meiyou ke tijiao de neirong", "") >> }
ChangedOutputs ==
  { << StatusLine("On branch", "main"), StatusLine("modified:", "a.ts") >>,
    << StatusLine("On branch", "main"), StatusLine("modified:", "a.ts"),
       StatusLine("new file:", "b.ts") >>,
    << StatusLine("weiyu fenzhi", "main"), StatusLine("shanchu:", "c.ts") >>,
    << StatusLine("On branch", "main"), StatusLine("Untracked files:", "d.ts"),
       StatusLine("nothing added to commit but untracked files present", "") >> }
StatusOutputs(r) == IF r.dirty THEN ChangedOutputs ELSE CleanOutputs

\* statusOutput.includes('nothing to commit') || statusOutput.includes(...):
\* the Chinese texts of the source are written in pinyin here
SaysNothingToCommit(out) ==
  \E k \in 1..Len(out) : out[k].label \in {"nothing to commit", "meiyou ke tijiao de neirong"}

\* extractChangedFiles(statusOutput)
extractChangedFiles(out) ==
  LET named(k) == out[k].label \in {"modified:", "new file:", "deleted:",
                                    "xiugai:", "xin wenjian:", "shanchu:"}
      RECURSIVE from(_)
      from(k) == IF k > Len(out) THEN <<>>
                 ELSE IF named(k) THEN <<out[k].rest>> \o from(k + 1)
                 ELSE from(k + 1)
  IN from(1)

\* variant: the flag is written before the status command is looked at
gitStatusStepExecuteEager(ctx, r) ==
  {Thrown(addToContext(ctx, "hasChanges", "true"), r)} \cup
  {Returned(addToContext(addToContext(ctx, "statusOutput", out), "hasChanges", "true"), r) :
     out \in StatusOutputs(r)}

\* gitStatusStep.execute
gitStatusStepExecute(ctx, r) ==
  {Thrown(ctx, r)} \cup
  { LET c1 == addToContext(ctx, "statusOutput", out)
    IN IF SaysNothingToCommit(out)
       THEN Returned(addToContext(c1, "hasChanges", "false"), r)
       ELSE Returned(addToContext(addToContext(c1, "changedFiles", extractChangedFiles(out)),
                                  "hasChanges", "true"), r) :
    out \in StatusOutputs(r) }

\* gitListBranchesStep.execute: the source is one of the other branches, the
\* target any branch but the source
gitListBranchesStepExecute(ctx, r) ==
  LET c1 == addToContext(ctx, "currentBranch", r.branch)
      branches == Branches \ {r.branch}
      chosen(sourceBranch, targetBranch) ==
        LET c2 == addToContext(addToContext(c1, "branches", branches),
                               "sourceBranch", sourceBranch)
            c3 == addToContext(c2, "targetBranch", targetBranch)
        IN Returned(addToContext(c3, "needBranchSwitch",
                                 IF targetBranch # r.branch THEN "true" ELSE "false"), r)
  IN {Thrown(ctx, r), Thrown(c1, r)} \cup
     UNION { {chosen(sourceBranch, targetBranch) : targetBranch \in Branches \ {sourceBranch}} :
             sourceBranch \in branches }

\* gitSwitchBranchStep.execute after the work tree has been dealt with:
\* `git checkout ${targetBranch}` unless the switch was cancelled
Checkout(ctx, r) ==
  LET targetBranch == getFromContext(ctx, "targetBranch")
  IN IF Truthy(getFromContext(ctx, "cancelBranchSwitch")) THEN {Returned(ctx, r)}
     ELSE {Thrown(ctx, r)} \cup
          (IF targetBranch \in Branches
           THEN {Returned(ctx, [Issue(r, "checkout", targetBranch, TRUE) EXCEPT !.branch = targetBranch])}
           ELSE {})

\* variant: 'discard' resets at once, without the second question
gitSwitchBranchStepExecuteUnconfirmed(ctx, r) ==
  LET cancelled == addToContext(ctx, "cancelBranchSwitch", "true")
      chose(action) == Answer(r, "action", action)
      clean(q) == [q EXCEPT !.dirty = FALSE]
  IN Checkout(ctx, r)
     \cup {Thrown(ctx, chose("commit"))}
     \cup Checkout(ctx, Issue(clean(chose("commit")), "commit", "", TRUE))
     \cup {Thrown(ctx, Issue(chose("stash"), "stash", "", FALSE))}
     \cup Checkout(addToContext(ctx, "hasStash", "true"),
                   Issue(clean(chose("stash")), "stash", "", TRUE))
     \cup {Thrown(ctx, Issue(chose("discard"), "reset", "--hard HEAD", FALSE))}
     \cup Checkout(ctx, Issue(clean(chose("discard")), "reset", "--hard HEAD", TRUE))
     \cup {Returned(cancelled, chose("cancel"))}

\* gitSwitchBranchStep.execute: `git status --porcelain` is run by
\* executeGitCommand as `git status` (executor.ts:206); when it succeeds its
\* output is never empty and the user is asked, whatever the work tree holds
gitSwitchBranchStepExecute(ctx, r) ==
  LET cancelled == addToContext(ctx, "cancelBranchSwitch", "true")
      chose(action) == Answer(r, "action", action)
      clean(q) == [q EXCEPT !.dirty = FALSE]
      declined == Answer(chose("discard"), "confirmDiscard", "no")
      insisted == Answer(chose("discard"), "confirmDiscard", "yes")
  IN \* the status command fails: no output, on to the checkout
     Checkout(ctx, r)
     \cup (IF \E out \in StatusOutputs(r) : Len(out) > 0
           THEN \* commit: add or commit fails, or both succeed
                {Thrown(ctx, chose("commit"))}
                \cup Checkout(ctx, Issue(clean(chose("commit")), "commit", "", TRUE))
                \* stash: fails or succeeds
                \cup {Thrown(ctx, Issue(chose("stash"), "stash", "", FALSE))}
                \cup Checkout(addToContext(ctx, "hasStash", "true"),
                              Issue(clean(chose("stash")), "stash", "", TRUE))
                \* discard: declined, or insisted and the reset fails or succeeds
                \cup {Returned(cancelled, declined)}
                \cup {Thrown(ctx, Issue(insisted, "reset", "--hard HEAD", FALSE))}
                \cup Checkout(ctx, Issue(clean(insisted), "reset", "--hard HEAD", TRUE))
                \* cancel
                \cup {Returned(cancelled, chose("cancel"))}
           ELSE {})

\* gitSwitchBranchStep.shouldSkip
gitSwitchBranchStepShouldSkip(ctx) == ~Truthy(getFromContext(ctx, "needBranchSwitch"))

\* gitMergePreviewStep.execute: `git log target..source` fails (always when
\* a name is not a branch) or answers log; the step looks at the output that
\* executeGitCommand hands back for it
gitMergePreviewStepExecute(ctx, r) ==
  {Thrown(ctx, r)} \cup
  (IF {getFromContext(ctx, "sourceBranch"), getFromContext(ctx, "targetBranch")} \subseteq Branches
   THEN { LET output == ExecutionOutput(log)
              told == Answer(r, "log", log)
          IN IF ~Truthy(output)
             THEN Returned(addToContext(ctx, "hasChangesToMerge", "false"), told)
             ELSE Returned(addToContext(ctx, "hasChangesToMerge", "true"), told) :
          log \in LogOutputs }
   ELSE {})

\* gitMergePreviewStep.shouldSkip
gitMergePreviewStepShouldSkip(ctx) == getFromContext(ctx, "cancelBranchSwitch") = "true"

\* gitMergeExecuteStep.execute after `git merge` succeeded: the offer to
\* restore the stash
RestoreStash(ctx, r) ==
  {Returned(ctx, r)} \cup
  (IF Truthy(getFromContext(ctx, "hasStash"))
   THEN {Returned(ctx, [Issue(r, "stash", "pop", TRUE) EXCEPT !.dirty = TRUE])}
   ELSE {})

\* gitMergeExecuteStep.execute
gitMergeExecuteStepExecute(ctx, r) ==
  LET sourceBranch == getFromContext(ctx, "sourceBranch")
      refused == Issue(r, "merge", sourceBranch, FALSE)
      merged == Issue(r, "merge", sourceBranch, TRUE)
  IN IF ~Truthy(getFromContext(ctx, "hasChangesToMerge")) THEN {Returned(ctx, r)}
     ELSE \* the user cancels
          {Returned(addToContext(ctx, "cancelMerge", "true"), r)}
          \* conflict: abort, abort fails, manual resolution
          \cup {Returned(ctx, Issue(refused, "merge", "--abort", TRUE)),
                Thrown(ctx, Issue(refused, "merge", "--abort", FALSE)),
                Returned(addToContext(ctx, "manualConflictResolution", "true"), refused)}
          \* the merge fails without a conflict
          \cup {Thrown(ctx, refused)}
          \* no-ff and ff: merged
          \cup RestoreStash(ctx, merged)
          \* squash: merged, then add and commit, either of which may fail
          \cup {Thrown(ctx, Issue(merged, "commit", "", FALSE))}
          \cup RestoreStash(ctx, Issue(merged, "commit", "", TRUE))

\* gitMergeExecuteStep.shouldSkip
gitMergeExecuteStepShouldSkip(ctx) ==
  \/ getFromContext(ctx, "cancelBranchSwitch") = "true"
  \/ getFromContext(ctx, "hasChangesToMerge") = "false"

\* gitPushMergeStep.execute
gitPushMergeStepExecute(ctx, r) ==
  LET targetBranch == getFromContext(ctx, "targetBranch")
  IN IF \/ Truthy(getFromContext(ctx, "cancelMerge"))
        \/ Truthy(getFromContext(ctx, "manualConflictResolution"))
     THEN {Returned(ctx, r)}
     ELSE \* declined, or no remote; `git remote` fails; push refused; pushed
          {Returned(ctx, r), Thrown(ctx, r),
           Thrown(ctx, Issue(r, "push", targetBranch, FALSE))}
          \cup (IF targetBranch \in Branches
                THEN {Returned(ctx, Issue(r, "push", targetBranch, TRUE))}
                ELSE {})

\* gitPushMergeStep.shouldSkip
gitPushMergeStepShouldSkip(ctx) ==
  \/ getFromContext(ctx, "cancelBranchSwitch") = "true"
  \/ getFromContext(ctx, "cancelMerge") = "true"
  \/ getFromContext(ctx, "manualConflictResolution") = "true"

\* messages generateCommitMessage suggests and the user types
CommitMessages == {"fix: a"}
\* what the user may leave in the editor of the suggested message
EditedMessages == CommitMessages \cup {""}
\* raw outputs of `git remote`
RemoteOutputs == {"", "origin"}

\* gitDiffAnalysisStep.execute; getGitDiff answers '' also when it fails
gitDiffAnalysisStepExecute(ctx, r) ==
  LET c1 == addToContext(ctx, "diffContent", "diff")
      final(c, m) == Returned(addToContext(c, "finalCommitMessage", m), r)
      suggestedTo(suggestedMessage) ==
        LET c2 == addToContext(c1, "suggestedCommitMessage", suggestedMessage)
        IN \* use
           {final(c2, suggestedMessage)}
           \* edit
           \cup {final(c2, editedMessage) : editedMessage \in EditedMessages}
           \* new: the prompt takes no empty input
           \cup {final(c2, newMessage) : newMessage \in {m \in EditedMessages : Truthy(m)}}
           \* cancel
           \cup {Returned(addToContext(c2, "cancelOperation", "true"), r)}
  IN IF ~Truthy(getFromContext(ctx, "hasChanges")) THEN {Returned(ctx, r)}
     ELSE {Returned(ctx, r)}
          \cup UNION {suggestedTo(suggestedMessage) : suggestedMessage \in CommitMessages}
          \* generateCommitMessage fails: the message is asked for
          \cup {final(c1, manualMessage) : manualMessage \in {m \in EditedMessages : Truthy(m)}}

\* gitDiffAnalysisStep.shouldSkip
gitDiffAnalysisStepShouldSkip(ctx) == ~Truthy(getFromContext(ctx, "hasChanges"))

\* the loop of gitAddStep.execute over the selected files: `git add "file"`
\* for each, whether it succeeds (oks) or not
RECURSIVE AddEach(_, _, _)
AddEach(r, selectedFiles, oks) ==
  IF selectedFiles = <<>> THEN r
  ELSE AddEach(Issue(r, "add", Head(selectedFiles), Head(oks)), Tail(selectedFiles), Tail(oks))

\* the checked entries of a checkbox prompt over these choices, in their order
Selections(choices) ==
  { SelectSeq([k \in 1..Len(choices) |-> IF k \in S THEN <<choices[k]>> ELSE <<>>],
              LAMBDA x : x # <<>>) : S \in SUBSET (1..Len(choices)) }

\* gitAddStep.execute
gitAddStepExecute(ctx, r) ==
  LET changedFiles == IF "changedFiles" \in DOMAIN ctx.data THEN ctx.data["changedFiles"] ELSE <<>>
      added == addToContext(ctx, "filesAdded", "true")
      notAdded == addToContext(ctx, "filesAdded", "false")
      selected(picked) ==
        LET selectedFiles == [k \in 1..Len(picked) |-> picked[k][1]]
        IN IF Len(selectedFiles) = 0 THEN {Returned(notAdded, r)}
           ELSE {Returned(added, AddEach(r, selectedFiles, oks)) :
                   oks \in [1..Len(selectedFiles) -> BOOLEAN]}
  IN IF Len(changedFiles) = 0 THEN {Returned(ctx, r)}
     ELSE \* all
          {Thrown(ctx, Issue(r, "add", "-A", FALSE)), Returned(added, Issue(r, "add", "-A", TRUE))}
          \* select
          \cup UNION {selected(picked) : picked \in Selections(changedFiles)}
          \* cancel
          \cup {Returned(addToContext(notAdded, "cancelOperation", "true"), r)}

\* variant: the step is never skipped
gitAddStepShouldSkipNever(ctx) == FALSE

\* gitAddStep.shouldSkip
gitAddStepShouldSkip(ctx) == ~Truthy(getFromContext(ctx, "hasChanges"))

\* variant: the message is not looked at before the commit
gitCommitStepExecuteAnyMessage(ctx, r) ==
  LET commitMessage == getFromContext(ctx, "finalCommitMessage")
      committed == [Issue(r, "commit", commitMessage, TRUE) EXCEPT !.dirty = FALSE]
      notPushing == addToContext(ctx, "shouldPush", "false")
  IN IF ~Truthy(getFromContext(ctx, "filesAdded")) THEN {Returned(ctx, r)}
     ELSE {Thrown(ctx, Issue(r, "commit", commitMessage, FALSE)),
           Returned(addToContext(ctx, "shouldPush", "true"), committed),
           Returned(addToContext(notPushing, "cancelOperation", "true"), committed),
           Returned(notPushing, committed)}

\* gitCommitStep.execute
gitCommitStepExecute(ctx, r) ==
  LET commitMessage == getFromContext(ctx, "finalCommitMessage")
      committed == [Issue(r, "commit", commitMessage, TRUE) EXCEPT !.dirty = FALSE]
      notPushing == addToContext(ctx, "shouldPush", "false")
  IN IF ~Truthy(getFromContext(ctx, "filesAdded")) THEN {Returned(ctx, r)}
     ELSE IF ~Truthy(commitMessage) THEN {Thrown(ctx, r)}
     ELSE {Thrown(ctx, Issue(r, "commit", commitMessage, FALSE)),
           \* push, end, continue
           Returned(addToContext(ctx, "shouldPush", "true"), committed),
           Returned(addToContext(notPushing, "cancelOperation", "true"), committed),
           Returned(notPushing, committed)}

\* variant: only filesAdded is looked at
gitCommitStepShouldSkipFilesOnly(ctx) == ~Truthy(getFromContext(ctx, "filesAdded"))

\* gitCommitStep.shouldSkip
gitCommitStepShouldSkip(ctx) ==
  \/ ~Truthy(getFromContext(ctx, "filesAdded"))
  \/ getFromContext(ctx, "cancelOperation") = "true"

\* gitPushStep.execute: `git branch --show-current` or `git remote` fails;
\* the list of remotes is empty; the push is refused or goes through
gitPushStepExecute(ctx, r) ==
  {Thrown(ctx, r)} \cup
  UNION { IF ~Truthy(ExecutionOutput(remote)) THEN {Returned(ctx, r)}
          ELSE {Thrown(ctx, Issue(r, "push", r.branch, FALSE)),
                Returned(ctx, Issue(r, "push", r.branch, TRUE))} :
          remote \in RemoteOutputs }

\* variant: only cancelOperation is looked at
gitPushStepShouldSkipCancelOnly(ctx) == getFromContext(ctx, "cancelOperation") = "true"

\* gitPushStep.shouldSkip
gitPushStepShouldSkip(ctx) ==
  \/ ~Truthy(getFromContext(ctx, "shouldPush"))
  \/ getFromContext(ctx, "cancelOperation") = "true"

\* gitCodeStatsStep.execute
gitCodeStatsStepExecute(ctx, r) ==
  IF ~Truthy(getFromContext(ctx, "hasChanges")) THEN {Returned(ctx, r)}
  ELSE {Returned(addToContext(ctx, "codeStats", "stats"), r)}

\* gitCodeStatsStep.shouldSkip
gitCodeStatsStepShouldSkip(ctx) == ~Truthy(getFromContext(ctx, "hasChanges"))

\* the steps of the workflows as registerAllSteps registers them,
\* engine.ts:286-303
WorkflowSteps ==
  << [id |-> "git-status",        shouldSkip |-> TRUE, requiresUserInput |-> TRUE, ver |-> 1],
     [id |-> "git-diff-analysis", shouldSkip |-> TRUE, requiresUserInput |-> TRUE, ver |-> 1],
     [id |-> "git-add",           shouldSkip |-> TRUE, requiresUserInput |-> TRUE, ver |-> 1],
     [id |-> "git-commit",        shouldSkip |-> TRUE, requiresUserInput |-> TRUE, ver |-> 1],
     [id |-> "git-push",          shouldSkip |-> TRUE, requiresUserInput |-> TRUE, ver |-> 1],
     [id |-> "git-code-stats",    shouldSkip |-> TRUE, requiresUserInput |-> TRUE, ver |-> 1],
     [id |-> "git-list-branches", shouldSkip |-> TRUE, requiresUserInput |-> TRUE, ver |-> 1],
     [id |-> "git-switch-branch", shouldSkip |-> TRUE, requiresUserInput |-> TRUE, ver |-> 1],
     [id |-> "git-merge-preview", shouldSkip |-> TRUE, requiresUserInput |-> TRUE, ver |-> 1],
     [id |-> "git-merge-execute", shouldSkip |-> TRUE, requiresUserInput |-> TRUE, ver |-> 1],
     [id |-> "git-push-merge",    shouldSkip |-> TRUE, requiresUserInput |-> TRUE, ver |-> 1] >>

\* step.shouldSkip(context) of the step with this id
StepShouldSkip(id, ctx) ==
  CASE id = "git-diff-analysis" -> gitDiffAnalysisStepShouldSkip(ctx)
    [] id = "git-add"           -> gitAddStepShouldSkip(ctx)
    [] id = "git-commit"        -> gitCommitStepShouldSkip(ctx)
    [] id = "git-push"          -> gitPushStepShouldSkip(ctx)
    [] id = "git-code-stats"    -> gitCodeStatsStepShouldSkip(ctx)
    [] id = "git-switch-branch" -> gitSwitchBranchStepShouldSkip(ctx)
    [] id = "git-merge-preview" -> gitMergePreviewStepShouldSkip(ctx)
    [] id = "git-merge-execute" -> gitMergeExecuteStepShouldSkip(ctx)
    [] id = "git-push-merge"    -> gitPushMergeStepShouldSkip(ctx)
    [] OTHER -> FALSE

\* step.execute(context) of the step with this id
StepExecute(id, ctx, r) ==
  CASE id = "git-status"        -> gitStatusStepExecute(ctx, r)
    [] id = "git-diff-analysis" -> gitDiffAnalysisStepExecute(ctx, r)
    [] id = "git-add"           -> gitAddStepExecute(ctx, r)
    [] id = "git-commit"        -> gitCommitStepExecute(ctx, r)
    [] id = "git-push"          -> gitPushStepExecute(ctx, r)
    [] id = "git-code-stats"    -> gitCodeStatsStepExecute(ctx, r)
    [] id = "git-list-branches" -> gitListBranchesStepExecute(ctx, r)
    [] id = "git-switch-branch" -> gitSwitchBranchStepExecute(ctx, r)
    [] id = "git-merge-preview" -> gitMergePreviewStepExecute(ctx, r)
    [] id = "git-merge-execute" -> gitMergeExecuteStepExecute(ctx, r)
    [] id = "git-push-merge"    -> gitPushMergeStepExecute(ctx, r)

\* the plans the resolver answers with: the status check, and the merge
\* workflow in the order of its steps
StatusPlan == <<"git-status">>
MergePlan ==
  <<"git-list-branches", "git-switch-branch", "git-merge-preview",
    "git-merge-execute", "git-push-merge">>
WorkflowPlanResults == {[steps |-> p, summary |-> "summary"] : p \in {StatusPlan, MergePlan}}
WorkflowInputs == {"what changed", "merge dev into main"}

\* initWorkflowEngine() of a process that has these steps
RegisterWorkflowSteps ==
  /\ registeredSteps = EmptyMap
  /\ registeredSteps' = registerAllSteps(registeredSteps, WorkflowSteps)
  /\ UNCHANGED <<pc, repeated, planResult, input, context, i, stepState, calls, report, repo>>

\* between two requests the user works in the repository
WorkOutside(branch, dirty) ==
  /\ pc \in {"idle", "done"}
  /\ repo' = [repo EXCEPT !.branch = branch, !.dirty = dirty]
  /\ UNCHANGED engineVars

\* processInput is called; repo.git and repo.answers start over with the run
StartRun(inp) ==
  /\ registeredSteps # EmptyMap
  /\ ProcessInput(inp)
  /\ repo' = [repo EXCEPT !.git = <<>>, !.answers = <<>>]

\* the skip predicate of the step in hand answers
SkipPredicate ==
  /\ pc = "shouldSkip"
  /\ ShouldSkipReturns(StepShouldSkip(StepAt(context, i).id, context))
  /\ UNCHANGED repo

\* the body of the step in hand runs to its return or throw
StepBody ==
  /\ pc = "execute"
  /\ repo.body = "none"
  /\ \E o \in StepExecute(StepAt(context, i).id, context, repo) :
       /\ context' = o.ctx
       /\ repo' = [o.repo EXCEPT !.body = o.result]
  /\ UNCHANGED <<registeredSteps, pc, repeated, planResult, input, i, stepState, calls, report>>

\* the engine gets the step's promise resolved / rejected
StepReturns ==
  /\ repo.body = "returns"
  /\ ExecuteReturns
  /\ repo' = [repo EXCEPT !.body = "none"]
StepThrows ==
  /\ repo.body = "throws"
  /\ ExecuteThrows
  /\ repo' = [repo EXCEPT !.body = "none"]

outsideSteps == <<other, regLog, written, got, localLevels, cliVars, configVars, entryVars>>

NextSteps ==
  \/ RegisterWorkflowSteps /\ UNCHANGED outsideSteps
  \/ \E branch \in Branches, dirty \in BOOLEAN : WorkOutside(branch, dirty) /\ UNCHANGED outsideSteps
  \/ \E inp \in WorkflowInputs : StartRun(inp) /\ UNCHANGED outsideSteps
  \/ \E pr \in WorkflowPlanResults : PlanResolved(pr) /\ UNCHANGED outsideEngine
  \/ PlanFails /\ UNCHANGED outsideEngine
  \/ SkipPredicate /\ UNCHANGED outsideSteps
  \/ \E action \in {"continue", "skip", "exit"} : Confirm(action) /\ UNCHANGED outsideEngine
  \/ StepBody /\ UNCHANGED outsideSteps
  \/ StepReturns /\ UNCHANGED outsideSteps
  \/ StepThrows /\ UNCHANGED outsideSteps
  \/ \E errorAction \in {"continue", "exit"} : ErrorDecision(errorAction) /\ UNCHANGED outsideEngine

SpecSteps == Init /\ [][NextSteps]_vars

\* the plans of the commit workflow: in full, without the status check,
\* without the analysis of the changes, and the statistics
CommitPlan == <<"git-status", "git-diff-analysis", "git-add", "git-commit", "git-push">>
NoStatusPlan == <<"git-diff-analysis", "git-add", "git-code-stats">>
NoAnalysisPlan == <<"git-status", "git-add", "git-commit", "git-push">>
StatsPlan == <<"git-status", "git-code-stats">>
CommitPlanResults ==
  {[steps |-> p, summary |-> "summary"] : p \in {CommitPlan, NoStatusPlan, NoAnalysisPlan, StatsPlan}}

\* the commit workflow, run by the engine on a repository whose work tree
\* the user changes between two requests
NextCommit ==
  \/ RegisterWorkflowSteps /\ UNCHANGED outsideSteps
  \/ \E branch \in Branches, dirty \in BOOLEAN : WorkOutside(branch, dirty) /\ UNCHANGED outsideSteps
  \/ StartRun("commit my code") /\ UNCHANGED outsideSteps
  \/ \E pr \in CommitPlanResults : PlanResolved(pr) /\ UNCHANGED outsideEngine
  \/ PlanFails /\ UNCHANGED outsideEngine
  \/ SkipPredicate /\ UNCHANGED outsideSteps
  \/ \E action \in {"continue", "skip", "exit"} : Confirm(action) /\ UNCHANGED outsideEngine
  \/ StepBody /\ UNCHANGED outsideSteps
  \/ StepReturns /\ UNCHANGED outsideSteps
  \/ StepThrows /\ UNCHANGED outsideSteps
  \/ \E errorAction \in {"continue", "exit"} : ErrorDecision(errorAction) /\ UNCHANGED outsideEngine

SpecCommit == Init /\ [][NextCommit]_vars

---------------------------------------------------------------------------
(* The LLM configuration: the three module variables of llm-service.ts,    *)
(* the config file, and the `config` command of the CLI.  An object is a   *)
(* function from the three field names to a string or undefined; the file  *)
(* holds the JSON text, the list of the name/value pairs that were         *)
(* written.                                                                *)

Fields == <<"apiKey", "model", "baseUrl">>
FieldNames == {"apiKey", "model", "baseUrl"}
ApiKeys == {"", "sk-1", "sk-2"}
Models == {"gpt-4"}
BaseUrls == {"http://localhost/v1"}
\* the LLMConfig objects and the option objects of the config command
Configs ==
  [apiKey : ApiKeys \cup {undefined}, model : Models \cup {undefined},
   baseUrl : BaseUrls \cup {undefined}]

\* `v || d`, `if (v)`, `!!v` on a string or undefined
NonEmpty(v) == v \notin {undefined, ""}
OrElse(v, d) == IF NonEmpty(v) THEN v ELSE d

\* JSON.stringify(obj): the properties whose value is not undefined, in order
JSONstringify(obj) ==
  SelectSeq([k \in 1..Len(Fields) |-> <<Fields[k], obj[Fields[k]]>>],
            LAMBDA pair : pair[2] # undefined)
\* JSON.parse(text) read as an LLMConfig: a missing property reads undefined
JSONparse(text) ==
  [f \in FieldNames |->
     IF \E k \in 1..Len(text) : text[k][1] = f
     THEN text[CHOOSE k \in 1..Len(text) : text[k][1] = f][2]
     ELSE undefined]
\* fs.writeFile(CONFIG_FILE, JSON.stringify(config))
Written(config) == [exists |-> TRUE, text |-> JSONstringify(config)]

\* initLLMService(), llm-service.ts:46-64
initLLMService(l) ==
  LET config == JSONparse(l.file.text)
      loaded == IF l.file.exists
                THEN [l EXCEPT !.API_KEY = OrElse(config.apiKey, ""),
                               !.MODEL_NAME = OrElse(config.model, "gpt-3.5-turbo"),
                               !.BASE_URL = OrElse(config.baseUrl, "")]
                ELSE l
  IN [loaded EXCEPT !.ret = IF NonEmpty(loaded.API_KEY) THEN "true" ELSE "false"]

\* variant: the new fields are laid over what the file holds
setLLMConfigMerging(l, config) ==
  LET existing == JSONparse(l.file.text)
  IN [l EXCEPT !.API_KEY = config.apiKey,
               !.file = Written([f \in FieldNames |->
                                   IF config[f] # undefined THEN config[f] ELSE existing[f]])]

\* setLLMConfig(config), llm-service.ts:70-84
setLLMConfig(l, config) ==
  [l EXCEPT !.API_KEY = config.apiKey,
            !.MODEL_NAME = IF NonEmpty(config.model) THEN config.model ELSE @,
            !.BASE_URL = IF NonEmpty(config.baseUrl) THEN config.baseUrl ELSE @,
            !.file = Written(config)]

\* setAPIKey(apiKey), llm-service.ts:90-112
setAPIKey(l, apiKey) ==
  LET existingConfig == JSONparse(l.file.text)
      config == IF l.file.exists THEN [existingConfig EXCEPT !.apiKey = apiKey]
                ELSE [apiKey |-> apiKey, model |-> undefined, baseUrl |-> undefined]
  IN [l EXCEPT !.API_KEY = apiKey, !.file = Written(config)]

\* the config object the command builds from its options, part_001:198-203
OptionsConfig(options) ==
  [f \in FieldNames |-> IF NonEmpty(options[f]) THEN options[f] ELSE undefined]

\* the action of `gt config`, part_001:176-248, in a process of its own
configAction(file, options, show, answers) ==
  LET l == initLLMService(FreshProcess(file))
  IN IF show THEN l
     ELSE IF \E f \in FieldNames : NonEmpty(options[f])
     THEN setLLMConfig(l, OptionsConfig(options))
     ELSE setLLMConfig(l, OptionsConfig(answers))

Called(l, op, arg) == [l EXCEPT !.op = op, !.arg = arg]

\* a process calls setLLMConfig(config)
SetLLMConfig(config) ==
  /\ llm' = Called([setLLMConfig(llm, config) EXCEPT !.ret = ""], "setLLMConfig", config)
  /\ UNCHANGED <<engineVars, stepVars, entryVars, other, regLog, written, got, localLevels, cliVars>>
\* a process calls initLLMService()
InitLLMService ==
  /\ llm' = Called(initLLMService(llm), "initLLMService", FreshProcess(NoFile).arg)
  /\ UNCHANGED <<engineVars, stepVars, entryVars, other, regLog, written, got, localLevels, cliVars>>
\* a process calls setAPIKey(apiKey)
SetAPIKey(apiKey) ==
  /\ llm' = Called([setAPIKey(llm, apiKey) EXCEPT !.ret = ""], "setAPIKey",
                   [FreshProcess(NoFile).arg EXCEPT !.apiKey = apiKey])
  /\ UNCHANGED <<engineVars, stepVars, entryVars, other, regLog, written, got, localLevels, cliVars>>
\* `gt config` with these options; the answers are those of the prompts of
\* the interactive form, where the key must not be empty and the model has
\* a default
ConfigCommand(options, show, answers) ==
  /\ llm' = Called([configAction(llm.file, options, show, answers) EXCEPT !.ret = ""],
                   IF show THEN "config --show" ELSE "config", options)
  /\ UNCHANGED <<engineVars, stepVars, entryVars, other, regLog, written, got, localLevels, cliVars>>
\* the process ends and the next one starts
NewProcess ==
  /\ llm' = FreshProcess(llm.file)
  /\ UNCHANGED <<engineVars, stepVars, entryVars, other, regLog, written, got, localLevels, cliVars>>

Answers ==
  [apiKey : ApiKeys \ {""}, model : Models \cup {"gpt-3.5-turbo"},
   baseUrl : BaseUrls \cup {""}]

NextConfig ==
  \/ \E config \in Configs : SetLLMConfig(config)
  \/ InitLLMService
  \/ \E apiKey \in ApiKeys : SetAPIKey(apiKey)
  \/ \E options \in Configs, show \in BOOLEAN, answers \in Answers :
       ConfigCommand(options, show, answers)
  \/ NewProcess

SpecConfig == Init /\ [][NextConfig]_vars

---------------------------------------------------------------------------
(* The default action of the CLI, `gt <request>`, in the three versions    *)
(* the repository holds, with processNaturalLanguage and the part of       *)
(* executeGitCommand that turns the command text into the arguments of a   *)
(* git process.  A command is the list of its words; its text is their     *)
(* Phrase.  The Chinese default commit message of the source is written    *)
(* in pinyin.                                                              *)
(*   "translate"  await processNaturalLanguage(command)                    *)
(*   "validate"   await validateGitCommand(gitCommand)                     *)
(*   "verify"     await inquirer.prompt (verification code)                *)
(*   "confirm"    await inquirer.prompt (confirm)                          *)
(*   "execute"    await executeGitCommand(gitCommand)                      *)

w_andand   == <<"&","&">>
w_message  == <<"-","-","m","e","s","s","a","g","e">>
w_qgengxinq == <<"\"","g","e","n","g","x","i","n","\"">>
w_qfeatq   == <<"\"","f","e","a","t",":","x","\"">>

\* cli/index.ts; part_001:19-295; part_001:315-607
Versions == {"plain", "validating", "latest"}

\* what the user types after `gt`: the text, and what the patterns of
\* extractIntent and extractParameters find in it
Requests ==
  { NoRequest,
    [text |-> "commit all changes", intent |-> "commit", message |-> undefined],
    [text |-> "commit all changes, Fix login bug", intent |-> "commit",
     message |-> <<w_qFix, w_login, w_bugq>>],
    [text |-> "show status", intent |-> "status", message |-> undefined],
    [text |-> "hello", intent |-> undefined, message |-> undefined] }
EntryOptions == [interactive : BOOLEAN, generateMessage : BOOLEAN]

\* extractParameters(intent, input).message, with its default
extractParameters(request) ==
  IF request.intent = "commit"
  THEN IF request.message # undefined THEN request.message ELSE <<w_qgengxinq>>
  ELSE <<>>

Resolved(command) == [ok |-> TRUE, command |-> command]
Rejected == [ok |-> FALSE, command |-> <<>>]

\* processNaturalLanguageWithRules(input): extractIntent, then generateCommand
processNaturalLanguageWithRules(request) ==
  CASE request.intent = "commit" ->
         Resolved(<<w_git, w_add, w_A, w_andand, w_git, w_commit, w_m>> \o extractParameters(request))
    [] request.intent = "status" -> Resolved(<<w_git, w_status>>)
    [] OTHER -> Rejected

\* what generateGitCommand may answer: a command and ten times its confidence
LlmAnswers ==
  [command : { <<w_git, w_commit>>, <<w_git, w_status>>,
               <<w_git, w_commit, w_m, w_qFix, w_login, w_bugq>>,
               <<w_git, w_add, w_A, w_andand, w_git, w_commit>> },
   confidence : {3, 6, 9}]
NoAnswer == [command |-> <<>>, confidence |-> 0]

\* processNaturalLanguage(input); answer is NoAnswer when generateGitCommand
\* rejects
processNaturalLanguage(request, llmAvailable, answer) ==
  LET ruleBasedCommand == processNaturalLanguageWithRules(request)
  IN IF ~llmAvailable \/ answer = NoAnswer THEN ruleBasedCommand
     ELSE IF answer.confidence > 7 THEN Resolved(answer.command)
     ELSE IF ~ruleBasedCommand.ok THEN Rejected
     ELSE IF ruleBasedCommand.command = answer.command \/ answer.confidence > 5
     THEN Resolved(answer.command)
     ELSE ruleBasedCommand

\* executeGitCommand(command), executor.ts:153-218: the arguments the git
\* process gets.  generated is the message of generateCommitMessage, <<>>
\* when the diff is empty or the generation fails.
GitArguments(command, llmAvailable, generated) ==
  LET gitCommandParts == Tail(command)
      mainCommand == gitCommandParts[1]
      gitCommandText == Phrase(gitCommandParts)
  IN IF /\ mainCommand = w_commit
        /\ ~includes(gitCommandText, w_m) /\ ~includes(gitCommandText, w_message)
        /\ llmAvailable /\ generated # <<>>
     THEN <<w_commit, w_m>> \o generated
     ELSE gitCommandParts

\* where the default action goes from its arguments: part_001:326-430,
\* part_001:29-56, cli/index.ts:26-34
Dispatch(version, request, options) ==
  CASE version = "plain" ->
         IF request.text = "" THEN "help" ELSE "translate"
    [] version = "validating" ->
         IF request.text = "" THEN "help"
         ELSE IF options.interactive THEN "workflow"
         ELSE "translate"
    [] version = "latest" ->
         IF options.generateMessage THEN "generate-message"
         ELSE IF request.text = "" THEN "help"
         ELSE IF options.interactive THEN "workflow"
         ELSE "nothing"

\* `gt <request>` is started
Invoke(version, request, options, llmAvailable) ==
  /\ entry.pc = "shell"
  /\ version = "plain" => options = NoOptions
  /\ version = "validating" => ~options.generateMessage
  /\ LET to == Dispatch(version, request, options)
         started == [AtShell EXCEPT !.version = version, !.request = request,
                                    !.options = options, !.llmAvailable = llmAvailable]
     IN entry' = IF to = "translate" THEN [started EXCEPT !.pc = "translate"]
                 ELSE [started EXCEPT !.pc = "end", !.handled = to]

\* processNaturalLanguage settles
Translated(answer) ==
  /\ entry.pc = "translate"
  /\ LET result == processNaturalLanguage(entry.request, entry.llmAvailable, answer)
     IN entry' =
          IF ~result.ok THEN [entry EXCEPT !.pc = "end", !.handled = "failed"]
          ELSE IF entry.version = "plain"
          THEN [entry EXCEPT !.pc = "confirm", !.gitCommand = result.command, !.previewed = TRUE]
          ELSE [entry EXCEPT !.pc = "validate", !.gitCommand = result.command]

\* validateGitCommand resolves and the command is previewed, part_001:62-86
EntryValidated(remote) ==
  /\ entry.pc = "validate"
  /\ LET level == validateGitCommand(Phrase(entry.gitCommand), entry.llmAvailable, remote)
     IN entry' = [entry EXCEPT !.risk = level, !.previewed = TRUE,
                               !.pc = IF NeedsVerification(level) THEN "verify" ELSE "confirm"]

\* the user retypes the verification code
EntryVerified ==
  /\ entry.pc = "verify"
  /\ entry' = [entry EXCEPT !.pc = "confirm"]

\* the user answers the confirmation
EntryConfirm(answer) ==
  /\ entry.pc = "confirm"
  /\ entry' = [entry EXCEPT !.confirmed = IF answer THEN "yes" ELSE "no",
                            !.pc = AfterConfirm(answer),
                            !.handled = IF answer THEN @ ELSE "cancelled"]

\* executeGitCommand starts its git process
EntryExecute(generated) ==
  /\ entry.pc = "execute"
  /\ entry' = [entry EXCEPT
                 !.ran = Append(@, GitArguments(entry.gitCommand, entry.llmAvailable, generated)),
                 !.pc = "end", !.handled = "executed"]

\* the process has ended; the user is back at the shell
EntryExit ==
  /\ entry.pc = "end"
  /\ entry' = AtShell

outsideEntry ==
  <<engineVars, stepVars, configVars, other, regLog, written, got, localLevels, cliVars>>

NextEntry ==
  \/ /\ \E version \in Versions, request \in Requests, options \in EntryOptions,
           llmAvailable \in BOOLEAN : Invoke(version, request, options, llmAvailable)
     /\ UNCHANGED outsideEntry
  \/ (\E answer \in LlmAnswers \cup {NoAnswer} : Translated(answer)) /\ UNCHANGED outsideEntry
  \/ (\E remote \in RemoteOutcomes : EntryValidated(remote)) /\ UNCHANGED outsideEntry
  \/ EntryVerified /\ UNCHANGED outsideEntry
  \/ (\E answer \in BOOLEAN : EntryConfirm(answer)) /\ UNCHANGED outsideEntry
  \/ (\E generated \in {<<>>, <<w_qfeatq>>} : EntryExecute(generated)) /\ UNCHANGED outsideEntry
  \/ EntryExit /\ UNCHANGED outsideEntry

SpecEntry == Init /\ [][NextEntry]_vars

---------------------------------------------------------------------------
(* Vocabulary of the properties *)

NSteps == IF context.created THEN Len(context.steps) ELSE 0
Positions == 0..(NSteps - 1)
Settled == {"Skipped", "Completed", "FailedContinue"}

\* trace entries that belong to plan position p, and their ops
EventsAt(p) == {k \in 1..Len(calls) : calls[k].i = p}
OpsAt(p) == {calls[k].op : k \in EventsAt(p)}
EventsOf(op) == {k \in 1..Len(calls) : calls[k].op = op}
StepIdsOf(steps) == [k \in 1..Len(steps) |-> steps[k].id]
Count(x, seq) == Cardinality({k \in 1..Len(seq) : seq[k] = x})
\* a step that is not a new processInput call
SameRun == ~(pc \in {"idle", "done"} /\ pc' = "planning")
EndedEarly == report \cap {"Exited", "Cancelled", "WorkflowError"} # {}

---------------------------------------------------------------------------
(* C1 *)

C1_Positions ==
  context.created =>
    \A p \in Positions :
      /\ p < i => stepState[p + 1] \in Settled
      /\ p > i => stepState[p + 1] = "NotRun" /\ EventsAt(p) = {}
      /\ (p = i /\ pc = "done") => stepState[p + 1] \in {"NotRun", "Failed"} /\ EndedEarly

C1_Once ==
  SameRun =>
    \A k \in 1..Len(stepState) :
      stepState[k] \in Settled => stepState'[k] = stepState[k]

\* C1: every step the engine has moved past is in exactly one of Skipped,
\* Completed, FailedContinue and stays there; when the run ends early every
\* step after the current one is NotRun and none of its callbacks was invoked.
C1_StepOutcomes == []C1_Positions /\ [][C1_Once]_vars

C1_Witness ==
  /\ pc = "done"
  /\ "Exited" \in report
  /\ stepState = <<"FailedContinue", "Skipped", "NotRun">>

---------------------------------------------------------------------------
(* C2 *)

C2_Ended ==
  \A k \in EventsOf("confirm=exit") :
    /\ k = Len(calls)
    /\ pc = "done"
    /\ report = {"Exited"}
    /\ \A p \in Positions :
         p >= calls[k].i =>
           /\ stepState[p + 1] = "NotRun"
           /\ "execute" \notin OpsAt(p)
           /\ (p > calls[k].i => EventsAt(p) = {})

C2_Frozen ==
  (EventsOf("confirm=exit") # {} /\ SameRun) =>
    UNCHANGED <<context, calls, stepState, pc, report>>

\* C2: after the Exit answer at step k the run is over: no callback of
\* steps k..n is invoked afterwards and the context is not written again.
C2_ExitEndsRun == []C2_Ended /\ [][C2_Frozen]_vars

C2_Witness ==
  /\ EventsOf("confirm=exit") # {}
  /\ NSteps = 3
  /\ i = 1
  /\ DOMAIN context.data # {}

---------------------------------------------------------------------------
(* C3 *)

\* C3: a run whose cursor exhausts the step list reports completion; a run
\* ended by ExitOnError does not report completion and leaves the later
\* steps NotRun.
C3_Outcome ==
  (pc = "done" /\ context.created) =>
    /\ (i = NSteps => "AllCompleted" \in report)
    /\ (EventsOf("errorPrompt=exit") # {} =>
          /\ "AllCompleted" \notin report
          /\ \A p \in Positions : p > i => stepState[p + 1] = "NotRun")

---------------------------------------------------------------------------
(* C4 *)

C4_Caught ==
  \A k \in EventsOf("execute!throw") :
    /\ k < Len(calls)
    /\ calls[k + 1] = Call("errorPrompt", calls[k].i, calls[k].step)

C4_Asked ==
  \A k \in EventsOf("errorPrompt") :
    IF k = Len(calls) THEN pc = "errorPrompt"
    ELSE calls[k + 1].op \in {"errorPrompt=continue", "errorPrompt=exit"}

C4_Continues ==
  \A k \in EventsOf("errorPrompt=continue") :
    IF calls[k].i + 1 < NSteps
    THEN /\ k < Len(calls)
         /\ calls[k + 1].i = calls[k].i + 1
         /\ calls[k + 1].op \in {"shouldSkip", "confirm", "execute"}
         /\ calls[k + 1].step = context.steps[calls[k].i + 2]
    ELSE k = Len(calls) /\ pc = "done" /\ ~EndedEarly

\* C4: a rejected step action is always followed by the error prompt for
\* that step, the run does not end before the prompt is answered, and the
\* answer "continue" leads to the next plan position.
C4_FailureDecision == C4_Caught /\ C4_Asked /\ C4_Continues

C4_Witness ==
  \E k \in EventsOf("errorPrompt=continue") :
    /\ calls[k].i = 0
    /\ k < Len(calls)
    /\ calls[k + 1].i = 1

---------------------------------------------------------------------------
(* C5 *)

C5_First ==
  \A p \in Positions :
    EventsAt(p) # {} =>
      LET first == calls[CHOOSE k \in EventsAt(p) : \A m \in EventsAt(p) : k <= m]
      IN context.steps[p + 1].shouldSkip => first.op = "shouldSkip"

C5_AutoSkip ==
  \A k \in EventsOf("shouldSkip=true") :
    /\ stepState[calls[k].i + 1] = "Skipped"
    /\ OpsAt(calls[k].i) = {"shouldSkip", "shouldSkip=true"}

C5_NoPredicate ==
  \A p \in Positions :
    (~context.steps[p + 1].shouldSkip /\ stepState[p + 1] = "Skipped") =>
      "confirm=skip" \in OpsAt(p)

\* C5: the skip predicate is the first thing invoked for a step that has
\* one; when it answers true the step is Skipped with no prompt and no
\* action; a step without a predicate is Skipped only by the user's answer.
C5_SkipPredicate == C5_First /\ C5_AutoSkip /\ C5_NoPredicate

C5_Witness ==
  /\ \E k \in EventsOf("shouldSkip=true") : calls[k].i = 0
  /\ \E p \in Positions :
       ~context.steps[p + 1].shouldSkip /\ stepState[p + 1] = "Skipped"

---------------------------------------------------------------------------
(* C6, C7, C8: plan resolution *)

\* the step generateWorkflowPlan's answer is consumed in
PlanConsumed == pc = "planning" /\ pc' # "planning" /\ "WorkflowError" \notin report'

\* the ids of a resolver answer that are registered, in the answer's order
KnownIds(ids) == SelectSeq(ids, LAMBDA id : id \in DOMAIN registeredSteps)

C6_Step ==
  (PlanConsumed /\ KnownIds(planResult'.steps) = <<>>) =>
    /\ pc' = "done"
    /\ report' = {"NoPlan"}
    /\ context' = NoContext
    /\ calls' = <<>>
    /\ stepState' = <<>>
    /\ registeredSteps' = registeredSteps

C6_NoPlanState ==
  "NoPlan" \in report =>
    pc = "done" /\ report = {"NoPlan"} /\ context = NoContext /\ calls = <<>>

\* C6: when no id of the resolver's answer is registered the call ends at
\* once with the NoPlan message, without a context, a prompt or a callback
\* invocation, and leaves the engine as it was; so does every repetition.
C6_EmptyPlan == []C6_NoPlanState /\ [][C6_Step]_vars

C6_Witness ==
  /\ repeated
  /\ pc = "done"
  /\ report = {"NoPlan"}
  /\ Len(planResult.steps) = 2
  /\ DOMAIN registeredSteps # {}

C7_Step ==
  PlanConsumed =>
    LET kept == KnownIds(planResult'.steps)
    IN IF kept = <<>>
       THEN report' = {"NoPlan"} /\ ~context'.created
       ELSE /\ context'.created
            /\ StepIdsOf(context'.steps) = kept
            /\ \A k \in 1..Len(kept) : context'.steps[k] = registeredSteps[kept[k]]

\* C7: the run's steps are the registered ids of the resolver's answer in
\* their original order; unregistered ids are dropped without an error
\* report, and an answer with only unregistered ids gives NoPlan.
C7_UnknownDropped == [][C7_Step]_vars

C7_Witness ==
  /\ planResult.steps = <<"git-add", "git-nonexistent", "git-status">>
  /\ context.created
  /\ StepIdsOf(context.steps) = <<"git-add", "git-status">>
  /\ report = {}

\* C8 as stated: no step id occurs twice in the run's steps and no step's
\* action is invoked twice.
C8_NoDuplicates ==
  context.created =>
    /\ \A p, q \in Positions : p # q => context.steps[p + 1].id # context.steps[q + 1].id
    /\ \A id \in PlanIds :
         Cardinality({k \in EventsOf("execute") : calls[k].step.id = id}) <= 1

C8_Step ==
  (PlanConsumed /\ context'.created) =>
    \A id \in DOMAIN registeredSteps :
      Count(id, StepIdsOf(context'.steps)) = Count(id, planResult'.steps)

C8_PerPosition ==
  \A p \in Positions : Cardinality({k \in EventsOf("execute") : calls[k].i = p}) <= 1

\* C8 (amended): a registered id the resolver names m times occupies m
\* positions of the run's steps, and the action of each position is invoked
\* at most once.
C8_DuplicatesKept == []C8_PerPosition /\ [][C8_Step]_vars

C8_Witness ==
  /\ context.created
  /\ planResult.steps = <<"git-add", "git-add">>
  /\ StepIdsOf(context.steps) = <<"git-add", "git-add">>
  /\ {calls[k].i : k \in EventsOf("execute")} = {0, 1}

---------------------------------------------------------------------------
(* C9 *)

C9_Ordered ==
  \A k, m \in EventsOf("execute") : k < m => calls[k].i < calls[m].i

C9_OneAtATime ==
  \A k \in EventsOf("execute") :
    IF k = Len(calls) THEN pc = "execute"
    ELSE calls[k + 1].op \in {"execute=ok", "execute!throw"} /\ calls[k + 1].i = calls[k].i

\* C9: actions are invoked in strictly increasing plan position, each
\* invocation has come back before the next one starts, and no position's
\* action is invoked a second time, a failed one included.
C9_SequentialOnce == C9_Ordered /\ C9_OneAtATime

C9_Witness ==
  /\ {calls[k].i : k \in EventsOf("execute")} = {0, 1, 2}
  /\ \E k \in EventsOf("execute!throw") : calls[k].i = 1

---------------------------------------------------------------------------
(* C10 *)

C10_AtCall ==
  pc \in {"shouldSkip", "confirm", "execute", "errorPrompt"} =>
    LET last == calls[Len(calls)]
    IN /\ last.op = pc
       /\ last.i = context.currentStepIndex
       /\ last.step = context.steps[context.currentStepIndex + 1]

C10_Step ==
  /\ (~context.created /\ context'.created) => context'.currentStepIndex = 0
  /\ (context.created /\ context'.created) =>
        context'.currentStepIndex >= context.currentStepIndex

\* C10: a new context has cursor 0, the cursor never decreases, and while a
\* skip predicate, prompt or action of a step is pending the cursor is that
\* step's position in the run's steps.
C10_Cursor == []C10_AtCall /\ [][C10_Step]_vars

C10_Witness ==
  /\ pc = "execute"
  /\ context.currentStepIndex = 2
  /\ calls[Len(calls)].step = context.steps[3]

---------------------------------------------------------------------------
(* Vocabulary of the risk gate properties *)

Executions == 1..Len(executed)
\* the remote classifier gave the level of assessment a
Answered(a) == a.apiKey /\ a.remote \in Levels
HasHighPattern(command) == AnyIncluded(command, executorHighRiskPatterns)
HasMediumPattern(command) == AnyIncluded(command, executorMediumRiskPatterns)
ScenarioHigh == Phrase(<<w_reset, w_hard, w_HEAD3>>)
ScenarioMedium == Phrase(<<w_checkout, w_b, w_featurex>>)
ScenarioLow == w_status

---------------------------------------------------------------------------
(* C11: no command that is classified high reaches git unless the user has  *)
(* retyped the verification code before.  Every call of executeGitCommand   *)
(* that ran a command of level high was preceded by an accepted             *)
(* verification prompt.                                                     *)
C11_HighNeedsCode ==
  \A k \in Executions : executed[k].level = "high" => executed[k].verified

---------------------------------------------------------------------------
(* C12: the local policy answers high when a high-risk pattern occurs in    *)
(* the command, whatever else occurs; else medium when a medium-risk        *)
(* pattern occurs; else low.  The three commands of Scenario C get high,    *)
(* medium and low.  The policy of executor.ts and the policy of             *)
(* llm-service.ts give the same level for every command.                    *)
C12_LocalPolicy ==
  localLevels # NoLevels =>
    /\ HasHighPattern(gitCommand) => localLevels.executor = "high"
    /\ ~HasHighPattern(gitCommand) /\ HasMediumPattern(gitCommand)
         => localLevels.executor = "medium"
    /\ ~HasHighPattern(gitCommand) /\ ~HasMediumPattern(gitCommand)
         => localLevels.executor = "low"
    /\ gitCommand = ScenarioHigh => localLevels.executor = "high"
    /\ gitCommand = ScenarioMedium => localLevels.executor = "medium"
    /\ gitCommand = ScenarioLow => localLevels.executor = "low"
    /\ localLevels.llm = localLevels.executor

\* a command with a high-risk and a medium-risk pattern has been classified
C12_Witness ==
  /\ gitCommand = ScenarioHigh
  /\ HasHighPattern(gitCommand) /\ HasMediumPattern(gitCommand)
  /\ localLevels = [executor |-> "high", llm |-> "high"]

---------------------------------------------------------------------------
(* C13, as stated: two answers of validateGitCommand for the same command   *)
(* text carry the same level, whatever the remote classifier did.           *)
C13_Pure ==
  \A a, b \in assessments : a.command = b.command => a.level = b.level

(* C13, amended: validateGitCommand is a function of the command text and   *)
(* of what the remote classifier did.  When the remote classifier answered  *)
(* a level, that level is returned; any two answers for the same text that  *)
(* were given without a remote answer carry the same level.                 *)
C13_PureUpToRemote ==
  /\ \A a \in assessments : Answered(a) => a.level = a.remote
  /\ \A a, b \in assessments :
       a.command = b.command /\ ~Answered(a) /\ ~Answered(b) => a.level = b.level

\* the same text classified twice: the remote classifier failing, and a remote
\* answer that is not the level of the local policy
C13_Witness ==
  \E a, b \in assessments :
    /\ a.command = b.command
    /\ a.apiKey /\ a.remote = "fails"
    /\ Answered(b) /\ b.level # a.level

---------------------------------------------------------------------------
(* C14: validateGitCommand always returns an assessment (a level, never an  *)
(* error), and when the remote classifier is unavailable or its call fails  *)
(* the level is the one of the local pattern policy.                        *)
C14_Fallback ==
  \A a \in assessments :
    /\ a.level \in Levels
    /\ ~Answered(a) => a.level = validateGitCommandLocally(a.command)

\* a failed remote call for a command the local policy calls high
C14_Witness ==
  \E a \in assessments : a.apiKey /\ a.remote = "fails" /\ a.level = "high"

---------------------------------------------------------------------------
(* C15: in the direct command path the command reaches executeGitCommand    *)
(* only after the user accepted the standard confirmation, for every risk   *)
(* level; after a declined confirmation nothing is executed.                *)
C15_ConfirmedFirst ==
  /\ cliPc = "execute" => confirmed = "yes"
  /\ \A k \in Executions : executed[k].by = "cli" => executed[k].confirmed = "yes"
  /\ confirmed = "no" => cliPc = "end" /\ executed = <<>>

\* a high-risk command was verified, confirmed and executed
C15_Witness ==
  /\ cliPc = "end" /\ risk = "high" /\ confirmed = "yes"
  /\ Len(executed) = 1 /\ executed[1].by = "cli" /\ executed[1].command = gitCommand

---------------------------------------------------------------------------
(* Vocabulary of the context and registry properties *)

\* the value of the last entry of log for key, undefined when there is none
RECURSIVE LastWrite(_, _)
LastWrite(log, key) ==
  IF log = <<>> THEN undefined
  ELSE IF log[Len(log)][1] = key THEN log[Len(log)][2]
  ELSE LastWrite(SubSeq(log, 1, Len(log) - 1), key)

\* the last step of log registered under id, UndefinedStep when there is none
RECURSIVE LastRegistered(_, _)
LastRegistered(log, id) ==
  IF log = <<>> THEN UndefinedStep
  ELSE IF log[Len(log)].id = id THEN log[Len(log)]
  ELSE LastRegistered(SubSeq(log, 1, Len(log) - 1), id)

\* a call is between its first step and its end
MidRun(p) == p \in {"shouldSkip", "confirm", "execute", "errorPrompt"}

\* every value in the data of call c was written by c, into c's own context
OwnContext(c) ==
  c.context.created =>
    /\ c.context.originalInput = c.input
    /\ \A k \in DOMAIN c.context.data : c.context.data[k] = c.input

\* in the trace cl of a call at p, actions start in increasing plan position
\* and each has come back before the next starts
SequentialTrace(cl, p) ==
  LET ex == {k \in 1..Len(cl) : cl[k].op = "execute"} IN
    /\ \A k, m \in ex : k < m => cl[k].i < cl[m].i
    /\ \A k \in ex :
         IF k = Len(cl) THEN p = "execute"
         ELSE cl[k + 1].op \in {"execute=ok", "execute!throw"} /\ cl[k + 1].i = cl[k].i

---------------------------------------------------------------------------
(* C16 *)

C16_Lookup ==
  context.created =>
    \A k \in ContextKeys : getFromContext(context, k) = LastWrite(written, k)

C16_Read == got' # got => got'.value = LastWrite(written, got'.key)

C16_Frame ==
  Len(written') = Len(written) + 1 =>
    \A k \in ContextKeys \ {written'[Len(written')][1]} :
      getFromContext(context', k) = getFromContext(context, k)

\* C16: getFromContext(k) is the value of the last addToContext(k, _) of the
\* run and undefined (no error) when k was never written; addToContext(k, v)
\* leaves what getFromContext returns for every other key as it was.
C16_Accessors == []C16_Lookup /\ [][C16_Read /\ C16_Frame]_vars

\* a key overwritten with another value, a second key written in between, and
\* a read of a key that was never written
C16_Witness ==
  /\ written = << <<"hasChanges", "true">>, <<"targetBranch", "false">>,
                  <<"hasChanges", "false">> >>
  /\ getFromContext(context, "hasChanges") = "false"
  /\ got = [key |-> "hasStash", value |-> undefined]

---------------------------------------------------------------------------
(* C17 *)

C17_Step ==
  SameRun /\ context.created =>
    /\ context'.created
    /\ \A k \in DOMAIN context.data :
         /\ k \in DOMAIN context'.data
         /\ context'.data[k] # context.data[k] => pc = "execute" /\ pc' = "execute"

\* C17: within a run no step of the engine removes a key of the context or
\* changes its value; a value changes only while a step's action runs (the
\* action overwrites it).  Skipping, failing, continuing after an error and
\* exiting leave the data as it is.
C17_KeptOnDecision == [][C17_Step]_vars

\* the first step wrote a key, the second was skipped, the user left at the
\* third: the key is still there
C17_Witness ==
  /\ pc = "done" /\ "Exited" \in report
  /\ stepState = <<"Completed", "Skipped", "NotRun">>
  /\ getFromContext(context, "hasChanges") = "true"

---------------------------------------------------------------------------
(* C18 *)

C18_Fresh ==
  ~context.created /\ context'.created /\ other' = other =>
    context' = [created |-> TRUE, originalInput |-> input,
                steps |-> generatePlan(registeredSteps, planResult').steps,
                currentStepIndex |-> 0, data |-> EmptyMap]

C18_Own == OwnContext(ThisCall) /\ OwnContext(other)

\* C18: the context of a call is created with empty data, cursor 0, the
\* call's input and the call's resolved steps; and whatever two calls on the
\* engine write, one after the other or in turns, each context only ever
\* holds what its own call wrote.
C18_FreshContext == []C18_Own /\ [][C18_Fresh]_vars

\* two calls in flight with different inputs, each with a key written
C18_Witness ==
  /\ context.created /\ other.context.created
  /\ input # other.input
  /\ context.data # EmptyMap /\ other.context.data # EmptyMap

---------------------------------------------------------------------------
---------------------------------------------------------------------------
(* C20 *)

C20_Lookup ==
  \A id \in PlanIds : getStepById(registeredSteps, id) = LastRegistered(regLog, id)

C20_ReInit ==
  /\ regLog' = regLog \o AllSteps
  /\ \A k \in 1..Len(AllSteps) : AllSteps[k].id \in DOMAIN registeredSteps
  => DOMAIN registeredSteps' = DOMAIN registeredSteps

\* C20: getStepById(id) is the step of the last registerStep call for id, and
\* UndefinedStep when there was none: a registration is found again, a later
\* one replaces an earlier one of the same id, and other ids are not touched.
\* initWorkflowEngine on a registry that already has its steps leaves the
\* set of registered ids as it was.
C20_Registry == []C20_Lookup /\ [][C20_ReInit]_vars

\* one id registered twice with different steps, then initWorkflowEngine
C20_Witness ==
  /\ Len(regLog) = 4
  /\ regLog[1].id = "git-add" /\ regLog[2].id = "git-add" /\ regLog[1] # regLog[2]
  /\ SubSeq(regLog, 3, 4) = AllSteps
  /\ getStepById(registeredSteps, "git-add") = AllSteps[2]
  /\ getStepById(registeredSteps, "git-nonexistent") = UndefinedStep

---------------------------------------------------------------------------
(* C21 *)

C21_EngineLeavesRegistry ==
  registeredSteps' # registeredSteps =>
    UNCHANGED <<pc, planResult, input, context, i, stepState, calls, report>>

C21_StepsKept == SameRun /\ context.created => context'.steps = context.steps

C21_RunsResolved ==
  \A k \in 1..Len(calls) : calls[k].step = context.steps[calls[k].i + 1]

\* C21: no step of a run changes the registry, the step list of a run is the
\* one resolved from the plan for as long as the run lasts, and every skip
\* predicate, prompt and action of the run belongs to the step definition of
\* that list, whatever registerStep has put under the same id since.
C21_Snapshot ==
  []C21_RunsResolved /\ [][C21_EngineLeavesRegistry /\ C21_StepsKept]_vars

\* the action in progress belongs to a definition that the registry has
\* replaced since the plan was resolved
C21_Witness ==
  /\ pc = "execute"
  /\ calls[Len(calls)].step = context.steps[i + 1]
  /\ context.steps[i + 1] # getStepById(registeredSteps, context.steps[i + 1].id)

---------------------------------------------------------------------------
(* The steps of the status and merge workflows *)

\* positions of the plan in hand that hold the step with this id
PositionsOf(id) == {p \in Positions : context.steps[p + 1].id = id}
Has(key) == context.created /\ key \in DOMAIN context.data

\* a completed git-status step has left the flag that fits the output it
\* stored, and the changed files when there are changes
C22_Completed ==
  \A p \in PositionsOf("git-status") :
    stepState[p + 1] = "Completed" =>
      /\ Has("statusOutput") /\ Has("hasChanges")
      /\ IF \E k \in 1..Len(context.data["statusOutput"]) :
              context.data["statusOutput"][k].label
                \in {"nothing to commit", "meiyou ke tijiao de neirong"}
         THEN context.data["hasChanges"] = "false"
         ELSE /\ context.data["hasChanges"] = "true"
              /\ Has("changedFiles")
              /\ context.data["changedFiles"] = extractChangedFiles(context.data["statusOutput"])
\* a failed git-status step has written neither
C22_Failed ==
  \A p \in PositionsOf("git-status") :
    stepState[p + 1] \in {"Failed", "FailedContinue"} =>
      ~Has("hasChanges") /\ ~Has("changedFiles")
\* the status command failing makes the step fail
C22_FailureFails ==
  /\ pc = "execute" /\ StepAt(context, i).id = "git-status"
  /\ repo.body = "throws" /\ repo'.body = "none"
  => stepState'[i + 1] = "Failed" /\ pc' = "errorPrompt"
\* plan [git-status] on a clean work tree: the body returning ends the run
C22_ScenarioA ==
  /\ pc = "execute" /\ StepIdsOf(context.steps) = StatusPlan
  /\ repo.body = "returns" /\ repo'.body = "none" /\ ~repo.dirty
  => /\ pc' = "done"
     /\ report' = {"AllCompleted"}
     /\ stepState' = <<"Completed">>
     /\ getFromContext(context', "hasChanges") = "false"
\* C22: whenever the git-status step completes the context holds hasChanges
\* false when the stored status output says nothing to commit, and otherwise
\* hasChanges true together with changedFiles; with plan [git-status] and a
\* clean work tree the run completes with that one step Completed and
\* hasChanges false; when the status command fails the step fails and has
\* written neither hasChanges nor changedFiles.
C22_GitStatus ==
  [](C22_Completed /\ C22_Failed) /\ [][C22_FailureFails /\ C22_ScenarioA]_vars
\* scenario A has run to its end
C22_Witness ==
  /\ pc = "done"
  /\ context.created
  /\ StepIdsOf(context.steps) = StatusPlan
  /\ stepState = <<"Completed">>
  /\ report = {"AllCompleted"}
  /\ context.data["hasChanges"] = "false"
  /\ context.data["statusOutput"] \in CleanOutputs

\* the `git merge <source>` commands of the run, by position in repo.git
Merges == {k \in 1..Len(repo.git) : repo.git[k].cmd = "merge" /\ repo.git[k].arg # "--abort"}
Pushes == {k \in 1..Len(repo.git) : repo.git[k].cmd = "push"}

\* C29: whenever git-merge-execute issues `git merge`, the branch checked
\* out at that moment is the target branch chosen in git-list-branches,
\* whatever the user decided at the prompts before.
C29_MergeIntoTarget ==
  \A k \in Merges : repo.git[k].on = getFromContext(context, "targetBranch")

\* C30: git-push-merge issues `git push` only in a run in which an earlier
\* `git merge` of git-merge-execute went through.
C30_PushOnlyMerged ==
  \A k \in Pushes : \E j \in Merges : j < k /\ repo.git[j].ok

\* trace entries that record a failure
Failures == {k \in 1..Len(calls) : calls[k].op \in {"execute!throw", "shouldSkip!throw"}}

\* C27: every failure during a run is followed by the continue/exit
\* decision being offered; a run never ends on a failure without it.
C27_FailureOffersDecision ==
  \A k \in Failures : k < Len(calls) /\ calls[k + 1].op = "errorPrompt"

\* processInput leaves its await of the plan without a plan
C28_PlanFailed == pc = "planning" /\ pc' # "planning" /\ planResult' = NoPlanResult
\* C28: when plan resolution fails, processInput returns normally with the
\* error reported: no step was invoked and no context created; processInput
\* is never left by an exception.
C28_Caught ==
  /\ [](pc \in {"idle", "planning", "shouldSkip", "confirm", "execute", "errorPrompt", "done"})
  /\ [][C28_PlanFailed =>
          /\ pc' = "done"
          /\ report' = {"WorkflowError"}
          /\ calls' = <<>>
          /\ ~context'.created]_vars
C28_Witness ==
  /\ pc = "done"
  /\ planResult = NoPlanResult
  /\ report = {"WorkflowError"}
  /\ calls = <<>>

---------------------------------------------------------------------------
(* The LLM configuration *)

\* what the config file holds, read as an LLMConfig
Stored(l) == JSONparse(l.file.text)
\* the options of the config command that carry a value
Given(options) == {f \in FieldNames : NonEmpty(options[f])}

\* setLLMConfig(c) has returned: the file holds c, field for field
C25_Saved ==
  llm'.op = "setLLMConfig" =>
    llm'.file.exists /\ \A f \in FieldNames : Stored(llm')[f] = llm'.arg[f]
\* initLLMService() right after setLLMConfig(c): the module variables hold
\* c's values, or the default where c has none, and the answer is true
\* exactly when c has a key
C25_Loaded ==
  llm.op = "setLLMConfig" /\ llm'.op = "initLLMService" =>
    /\ llm'.API_KEY = (IF llm.arg.apiKey = undefined THEN "" ELSE llm.arg.apiKey)
    /\ llm'.MODEL_NAME = (IF llm.arg.model = undefined THEN "gpt-3.5-turbo" ELSE llm.arg.model)
    /\ llm'.BASE_URL = (IF llm.arg.baseUrl = undefined THEN "" ELSE llm.arg.baseUrl)
    /\ llm'.ret = (IF Stored(llm).apiKey \in {undefined, ""} THEN "false" ELSE "true")
\* C25: after setLLMConfig(c) the stored configuration equals c in apiKey,
\* model and baseUrl, and a following initLLMService loads those values and
\* returns true exactly when the stored apiKey is non-empty.
C25_RoundTrip == [][C25_Saved /\ C25_Loaded]_vars
\* the configuration of the test script, saved and loaded again
C25_Witness ==
  /\ llm.op = "initLLMService"
  /\ llm.ret = "true"
  /\ Stored(llm) = [apiKey |-> "sk-1", model |-> "gpt-4", baseUrl |-> "http://localhost/v1"]
  /\ <<llm.API_KEY, llm.MODEL_NAME, llm.BASE_URL>> = <<"sk-1", "gpt-4", "http://localhost/v1">>

\* C26: `gt config` with a single one of -k, -m, -u changes that parameter
\* only: the other stored parameters are as before, and a stored API key
\* stays stored, so the LLM service stays available.
C26_OnlyThatParameter ==
  [][llm'.op = "config" /\ Cardinality(Given(llm'.arg)) = 1 =>
       /\ \A f \in FieldNames \ Given(llm'.arg) : Stored(llm')[f] = Stored(llm)[f]
       /\ NonEmpty(Stored(llm).apiKey) => NonEmpty(Stored(llm').apiKey)]_vars

---------------------------------------------------------------------------
(* The default action of the CLI *)

\* the invocation in hand has ended and was a request without flags
PlainRequestEnded ==
  entry.pc = "end" /\ entry.request.text # "" /\ entry.options = NoOptions
\* the git processes of the invocation that run `git commit`
Commits == {k \in 1..Len(entry.ran) : entry.ran[k][1] = w_commit}
\* the message a git process got with -m, <<>> when it got none
MessageOf(argv) ==
  IF \E j \in 1..Len(argv) : argv[j] = w_m
  THEN SubSeq(argv, 1 + (CHOOSE j \in 1..Len(argv) : argv[j] = w_m), Len(argv))
  ELSE <<>>

\* C23: a non-empty request without flags is converted to a Git command,
\* previewed, and executed once the user confirms; the action never ends
\* without having processed it.
C23_Processed ==
  PlainRequestEnded =>
    /\ entry.handled \in {"executed", "cancelled", "failed"}
    /\ entry.handled # "failed" => entry.previewed /\ entry.gitCommand # <<>>
    /\ entry.confirmed = "yes" <=> Len(entry.ran) = 1

\* C24: a commit asked for without a message while the LLM service is
\* unavailable is made with the default message, and no `git commit` is
\* ever run without a message.
C24_DefaultMessage ==
  /\ ( /\ entry.pc = "end" /\ entry.handled = "executed"
       /\ entry.request.intent = "commit" /\ entry.request.message = undefined
       /\ ~entry.llmAvailable
       => \E k \in Commits : MessageOf(entry.ran[k]) = <<w_qgengxinq>> )
  /\ \A k \in Commits : MessageOf(entry.ran[k]) # <<>>

---------------------------------------------------------------------------
(* The merge workflow: what its steps were told *)

\* positions of repo.answers where the step was told this
Told(asked, answer) ==
  {a \in 1..Len(repo.answers) :
     repo.answers[a].asked = asked /\ repo.answers[a].answer = answer}
Resets == {k \in 1..Len(repo.git) : repo.git[k].cmd = "reset"}
Checkouts == {k \in 1..Len(repo.git) : repo.git[k].cmd = "checkout"}

\* C34: `git merge` is issued only in a run in which git-merge-preview
\* completed, found new commits on the source branch and recorded
\* hasChangesToMerge true; a preview that found no new commits leads to no
\* merge command.
C34_MergeOnlyPreviewed ==
  \A k \in Merges :
    /\ \E p \in PositionsOf("git-merge-preview") : stepState[p + 1] = "Completed"
    /\ getFromContext(context, "hasChangesToMerge") = "true"
    /\ Told("log", "") = {}

\* the switch was called off: 'discard' declined at the second question, or
\* 'cancel' chosen
CalledOff == Told("confirmDiscard", "no") \cup Told("action", "cancel")
LaterMergeSteps == {"git-merge-preview", "git-merge-execute", "git-push-merge"}

\* every reset is the first command after 'discard' and a yes to the second
\* question
C35_ResetConfirmed ==
  \A k \in Resets :
    \E a \in Told("action", "discard"), b \in Told("confirmDiscard", "yes") :
      b = a + 1 /\ repo.answers[b].at = k - 1
\* once the switch is called off the run has no reset and no checkout, the
\* flag is set, and none of the later merge steps has run
C35_CalledOff ==
  CalledOff # {} =>
    /\ Resets = {} /\ Checkouts = {}
    /\ getFromContext(context, "cancelBranchSwitch") = "true"
    /\ \A id \in LaterMergeSteps : \A p \in PositionsOf(id) :
         stepState[p + 1] \in {"NotRun", "Skipped"}
    /\ \A c \in 1..Len(calls) : calls[c].step.id \in LaterMergeSteps => calls[c].op # "execute"
\* when the turn of a later merge step comes it is skipped
C35_LaterSkipped ==
  pc = "shouldSkip" /\ CalledOff # {} /\ StepAt(context, i).id \in LaterMergeSteps /\ pc' # pc
  => stepState'[i + 1] = "Skipped"
\* C35: in git-switch-branch `git reset --hard HEAD` is issued only after the
\* user chose 'discard' and then confirmed; when the confirmation is declined
\* or 'cancel' is chosen, no reset and no checkout is issued,
\* cancelBranchSwitch is set, and the merge-preview, merge-execute and
\* push-merge steps that follow are skipped.
C35_SecondConfirmation ==
  [](C35_ResetConfirmed /\ C35_CalledOff) /\ [][C35_LaterSkipped]_vars
\* the merge workflow has run to its end after 'discard' was declined
C35_Witness ==
  /\ pc = "done"
  /\ context.created
  /\ StepIdsOf(context.steps) = MergePlan
  /\ Told("action", "discard") = {1} /\ Told("confirmDiscard", "no") = {2}
  /\ stepState = <<"Completed", "Completed", "Skipped", "Skipped", "Skipped">>
  /\ repo.git = <<>>
  /\ repo.dirty

---------------------------------------------------------------------------
(* The commit workflow *)

\* the `git add` and `git commit` commands of the run, by position in repo.git
Adds == {k \in 1..Len(repo.git) : repo.git[k].cmd = "add"}
StepCommits == {k \in 1..Len(repo.git) : repo.git[k].cmd = "commit"}
\* the step whose turn it is, "" outside a run
StepInHand == IF context.created /\ i < Len(context.steps) THEN StepAt(context, i).id ELSE ""
\* the engine leaves its await of shouldSkip
SkipAnswered == pc = "shouldSkip" /\ pc' # pc
\* the engine takes up a step body that has ended
BodyTakenUp == repo.body # "none" /\ repo'.body = "none"

\* C31: git-commit issues a commit command only in a run in which an earlier
\* `git add` of git-add succeeded.
C31_CommitOnlyStaged ==
  \A k \in StepCommits : \E j \in Adds : j < k /\ repo.git[j].ok

\* every commit command of the run carries a message
C32_Messages ==
  \A k \in StepCommits : repo.git[k].arg \notin {undefined, ""}
\* git-commit with files added and no message fails without a command
C32_Fails ==
  /\ pc = "execute" /\ StepInHand = "git-commit" /\ repo.body = "none"
  /\ Truthy(getFromContext(context, "filesAdded"))
  /\ getFromContext(context, "finalCommitMessage") \in {undefined, ""}
  /\ repo' # repo
  => repo'.body = "throws" /\ repo'.git = repo.git /\ context' = context
\* the engine asks whether to go on after a failed git-commit
C32_Decision ==
  StepInHand = "git-commit" /\ repo.body = "throws" /\ BodyTakenUp
  => pc' = "errorPrompt" /\ stepState'[i + 1] = "Failed"
\* C32: git-commit never issues a commit command with an absent or empty
\* message: with filesAdded true and finalCommitMessage absent or empty its
\* action fails before any commit command, and the engine turns the failure
\* into the continue/exit decision.
C32_NoEmptyMessage ==
  []C32_Messages /\ [][C32_Fails /\ C32_Decision]_vars
\* the suggested message was edited to empty, files were added, and the
\* engine asks what to do about the failed git-commit
C32_Witness ==
  /\ pc = "errorPrompt"
  /\ StepInHand = "git-commit"
  /\ Has("suggestedCommitMessage") /\ Has("finalCommitMessage")
  /\ context.data["finalCommitMessage"] = ""
  /\ getFromContext(context, "filesAdded") = "true"
  /\ \E j \in Adds : repo.git[j].ok
  /\ StepCommits = {}

\* an earlier commit command of the run went through (before position k of
\* repo.git)
CommittedBefore(k) == \E j \in StepCommits : j < k /\ repo.git[j].ok
\* shouldPush is true only after a commit that went through, and the action
\* of git-push has run only with shouldPush true
C33_AfterCommit ==
  /\ Has("shouldPush") /\ context.data["shouldPush"] = "true" => CommittedBefore(Len(repo.git) + 1)
  /\ \A c \in 1..Len(calls) :
       calls[c].op = "execute" /\ calls[c].step.id = "git-push" =>
         /\ getFromContext(context, "shouldPush") = "true"
         /\ CommittedBefore(Len(repo.git) + 1)
  /\ \A k \in Pushes : CommittedBefore(k)
\* git-push is skipped when shouldPush is absent or false
C33_Skipped ==
  /\ SkipAnswered /\ StepInHand = "git-push"
  /\ getFromContext(context, "shouldPush") \in {undefined, "false"}
  => stepState'[i + 1] = "Skipped"
\* C33: the action of git-push runs only in a run in which the commit command
\* of git-commit succeeded earlier and the user then chose to push:
\* shouldPush is true only after such a commit, and git-push is skipped
\* whenever shouldPush is absent or false.
C33_PushAfterCommit == []C33_AfterCommit /\ [][C33_Skipped]_vars
\* the full commit workflow has pushed
C33_Witness ==
  /\ pc = "done"
  /\ context.created
  /\ StepIdsOf(context.steps) = CommitPlan
  /\ stepState = <<"Completed", "Completed", "Completed", "Completed", "Completed">>
  /\ getFromContext(context, "shouldPush") = "true"
  /\ \E k \in Pushes : repo.git[k].ok /\ CommittedBefore(k)

\* cancelOperation stays true as long as the run lasts
C36_Sticky ==
  /\ Has("cancelOperation") /\ context.data["cancelOperation"] = "true"
  /\ context'.created
  => getFromContext(context', "cancelOperation") = "true"
\* with cancelOperation true, git-commit and git-push are skipped
C36_Skipped ==
  /\ SkipAnswered /\ StepInHand \in {"git-commit", "git-push"}
  /\ getFromContext(context, "cancelOperation") = "true"
  => stepState'[i + 1] = "Skipped"
\* the run is not about to run, or running, git-commit or git-push with
\* cancelOperation true
C36_NotRun ==
  /\ pc \in {"confirm", "execute"} /\ repo.body = "none"
  /\ StepInHand \in {"git-commit", "git-push"}
  => getFromContext(context, "cancelOperation") # "true"
\* C36: once a step has set cancelOperation to true it is never reset during
\* the run, and from then on git-commit and git-push are skipped at every
\* later position of the plan.
C36_CancelSticky == []C36_NotRun /\ [][C36_Sticky /\ C36_Skipped]_vars
\* the message was cancelled in the analysis, the files were added all the
\* same, and the run ended with commit and push skipped
C36_Witness ==
  /\ pc = "done"
  /\ context.created
  /\ StepIdsOf(context.steps) = CommitPlan
  /\ ~Has("finalCommitMessage")
  /\ getFromContext(context, "cancelOperation") = "true"
  /\ getFromContext(context, "filesAdded") = "true"
  /\ stepState = <<"Completed", "Completed", "Completed", "Skipped", "Skipped">>
  /\ report = {"AllCompleted"}

\* git-status has completed at an earlier position of the plan in hand
StatusCompletedBefore(n) ==
  \E q \in PositionsOf("git-status") : q < n /\ stepState[q + 1] = "Completed"
DependOnStatus == {"git-diff-analysis", "git-add", "git-code-stats"}
\* hasChanges is in the context only after git-status completed, or while
\* its body has ended and the engine has not taken it up
C37_Absent ==
  Has("hasChanges") =>
    \/ StatusCompletedBefore(Len(context.steps))
    \/ StepInHand = "git-status" /\ repo.body = "returns"
\* a step that depends on git-status is skipped when its turn comes and
\* git-status has not completed before it, and the run goes on without an
\* error
C37_Skipped ==
  SkipAnswered /\ StepInHand \in DependOnStatus /\ ~StatusCompletedBefore(i)
  => /\ stepState'[i + 1] = "Skipped"
     /\ pc' # "errorPrompt"
     /\ "WorkflowError" \notin report'
     /\ repo' = repo
\* C37: in a run where git-status did not complete before them (not in the
\* plan, skipped by the user, or failed), git-diff-analysis, git-add and
\* git-code-stats are skipped automatically and raise no error.
C37_AbsentMeansSkip == []C37_Absent /\ [][C37_Skipped]_vars
\* git-status failed, the user went on, and the two steps after it were
\* skipped
C37_Witness ==
  /\ context.created
  /\ StepIdsOf(context.steps) = CommitPlan
  /\ i >= 3
  /\ SubSeq(stepState, 1, 3) = <<"FailedContinue", "Skipped", "Skipped">>
  /\ ~Has("hasChanges")
  /\ "WorkflowError" \notin report

====
